---- MODULE Spec2Model ----
(***************************************************************************)
(* Model of the Flipper Zero RPC protocol handler                          *)
(* (src/src/device/flipper_protocol.py): the wire codec                    *)
(* (encode_message / decode_message), the request/response session         *)
(* (send_command, handle_response, handle_event, get_next_event) and the   *)
(* event queue; and of the Sub-GHz signal analysis                         *)
(* (src/src/device/subghz.py): the protocol registry, SignalAnalyzer and   *)
(* SubGHzSignal.analyze.                                                   *)
(*                                                                         *)
(* Strings are sequences of Unicode code points, byte strings are          *)
(* sequences of 0..255.  Python's None for the optional data field is the  *)
(* record NoneData; a bytes value b is SomeData(b).                        *)
(***************************************************************************)
EXTENDS Integers, Sequences, FiniteSets, TLC

VARIABLES
    command_id,   \* FlipperProtocol.command_id
    responses,    \* FlipperProtocol._responses: command id -> future (index of the call owning it)
    events,       \* FlipperProtocol._events (asyncio.Queue), as a sequence
    calls,        \* the send_command coroutines started so far, with their futures
    wire,         \* the last frame handed to transport.write
    received,     \* the messages get_next_event has returned, in order
    ignored,      \* history: why handle_response last did nothing ("none" if it never did)
    bursts,       \* number of SendTimeoutBurst steps taken
    c_msg,        \* codec: the message given to encode_message
    c_buf,        \* codec: the buffer given to decode_message
    c_out,        \* codec: the result of decode_message
    c_pc,         \* codec: "start" | "encoded" | "truncated" | "decoded"
    enqueued,     \* history: the messages handle_event has put on _events, in order
    getters,      \* asyncio.Queue._getters: number of get_next_event calls suspended
    woken,        \* get_next_event calls woken by a put and not yet resumed
    a_in,         \* analyzer: the function applied and its arguments
    a_out,        \* analyzer: the value it returned
    frequency,    \* SubGHzSignal.frequency, in units of 0.01 MHz
    modulation,   \* SubGHzSignal.modulation
    raw_samples,  \* SubGHzSignal.raw_samples
    pulses,       \* SubGHzSignal.pulses
    decoded_data, \* SubGHzSignal.decoded_data
    protocol,     \* SubGHzSignal.protocol
    metadata,     \* SubGHzSignal.metadata, as the value under 'bit_rate'
    analyzed,     \* history: how the last analyze() call ended ("never" before the first)
    added,        \* history: number of add_samples calls made
    manager,      \* the DeviceManager: status, connection_type, active_transport, _transports
    coroutines,   \* connect() and disconnect() calls: number started, those suspended
    transmit      \* the last transmit_signal call: its signal and how it ended

sessionVars == <<command_id, responses, events, calls, wire, received, ignored, bursts>>
codecVars == <<c_msg, c_buf, c_out, c_pc>>
queueVars == <<enqueued, getters, woken>>
analyzerVars == <<a_in, a_out>>
signalVars == <<frequency, modulation, raw_samples, pulses, decoded_data, protocol,
                metadata, analyzed, added>>
subghzVars == <<analyzerVars, signalVars>>
deviceVars == <<manager, coroutines, transmit>>
vars == <<command_id, responses, events, calls, wire, received, ignored, bursts,
          c_msg, c_buf, c_out, c_pc, enqueued, getters, woken, a_in, a_out,
          frequency, modulation, raw_samples, pulses, decoded_data, protocol,
          metadata, analyzed, added, manager, coroutines, transmit>>

----------------------------------------------------------------------------
(* Bounds of the model *)

MaxCalls == 2
MaxEvents == 1
MaxBursts == 1

----------------------------------------------------------------------------
(* MessageType *)

COMMAND == 0
RESPONSE == 1
EVENT == 2
ERROR == 3

MessageType == {COMMAND, RESPONSE, EVENT, ERROR}

(* Optional[bytes] *)
NoneData == [some |-> FALSE, bytes |-> <<>>]
SomeData(b) == [some |-> TRUE, bytes |-> b]

(* JSON values used as argument values: an int or a str *)
JInt(n) == [t |-> "int", n |-> n, s |-> <<>>]
JStr(s) == [t |-> "str", n |-> 0, s |-> s]

(* RPCMessage; args is the dict as its sequence of <<key, value>> items in *)
(* insertion order, keys distinct.                                         *)
RPCMessage(type, id, command, args, data) ==
    [type |-> type, command_id |-> id, command |-> command, args |-> args, data |-> data]

NoMsg == RPCMessage(-1, <<0, 0>>, <<>>, <<>>, NoneData)

(* dict.get(key, default) *)
RECURSIVE dict_get(_, _, _)
dict_get(args, key, default) ==
    IF args = <<>> THEN default
    ELSE LET last == args[Len(args)]
         IN  IF last[1] = key THEN last[2]
             ELSE dict_get(SubSeq(args, 1, Len(args) - 1), key, default)

(* dict equality: the same set of items, whatever the insertion order *)
dict_eq(a, b) == {a[i] : i \in 1..Len(a)} = {b[i] : i \in 1..Len(b)}

(* dataclass equality of two RPCMessage values *)
msg_eq(a, b) ==
    /\ a.type = b.type
    /\ a.command_id = b.command_id
    /\ a.command = b.command
    /\ dict_eq(a.args, b.args)
    /\ a.data = b.data

----------------------------------------------------------------------------
(* Helpers for Python values *)

Min(a, b) == IF a < b THEN a ELSE b

(* data[a:b] on a bytes or str value, 0 <= a <= b: the slice is clamped to *)
(* the end of the value and never raises.                                  *)
Slice(data, a, b) == SubSeq(data, a + 1, Min(b, Len(data)))

(* str.encode('utf-8') of one code point (the model's strings hold no lone *)
(* surrogate, which Python refuses to encode).                             *)
utf8_char(cp) ==
    IF cp < 128 THEN <<cp>>
    ELSE IF cp < 2048 THEN <<192 + (cp \div 64), 128 + (cp % 64)>>
    ELSE IF cp < 65536 THEN
        <<224 + (cp \div 4096), 128 + ((cp \div 64) % 64), 128 + (cp % 64)>>
    ELSE <<240 + (cp \div 262144), 128 + ((cp \div 4096) % 64),
           128 + ((cp \div 64) % 64), 128 + (cp % 64)>>

RECURSIVE utf8_encode(_)
utf8_encode(s) ==
    IF s = <<>> THEN <<>> ELSE utf8_char(Head(s)) \o utf8_encode(Tail(s))

IsCont(b) == b >= 128 /\ b < 192

(* bytes.decode('utf-8') (strict): ok = FALSE is UnicodeDecodeError *)
RECURSIVE utf8_decode_from(_, _, _)
utf8_decode_from(b, i, acc) ==
    IF i > Len(b) THEN [ok |-> TRUE, s |-> acc]
    ELSE LET b0 == b[i]
             has(k) == i + k <= Len(b) /\ \A j \in 1..k : IsCont(b[i + j])
         IN  IF b0 < 128 THEN utf8_decode_from(b, i + 1, Append(acc, b0))
             ELSE IF b0 >= 194 /\ b0 < 224 /\ has(1) THEN
                 utf8_decode_from(b, i + 2,
                     Append(acc, (b0 - 192) * 64 + (b[i + 1] - 128)))
             ELSE IF b0 >= 224 /\ b0 < 240 /\ has(2) THEN
                 LET cp == (b0 - 224) * 4096 + (b[i + 1] - 128) * 64 + (b[i + 2] - 128)
                 IN  IF cp < 2048 \/ (cp >= 55296 /\ cp < 57344)
                     THEN [ok |-> FALSE, s |-> <<>>]
                     ELSE utf8_decode_from(b, i + 3, Append(acc, cp))
             ELSE IF b0 >= 240 /\ b0 < 245 /\ has(3) THEN
                 LET cp == (b0 - 240) * 262144 + (b[i + 1] - 128) * 4096
                           + (b[i + 2] - 128) * 64 + (b[i + 3] - 128)
                 IN  IF cp < 65536 \/ cp > 1114111
                     THEN [ok |-> FALSE, s |-> <<>>]
                     ELSE utf8_decode_from(b, i + 4, Append(acc, cp))
             ELSE [ok |-> FALSE, s |-> <<>>]

utf8_decode(b) == utf8_decode_from(b, 1, <<>>)

(* Unsigned 32-bit integers are pairs <<hi, lo>> of 16-bit halves, value  *)
(* hi * 65536 + lo: TLC's own integers are signed 32-bit and cannot hold  *)
(* 0xFFFFFFFF.                                                            *)
Half == 65536

U32(n) == <<n \div Half, n % Half>>

u32_lt(a, b) == a[1] < b[1] \/ (a[1] = b[1] /\ a[2] < b[2])

(* 0xFFFFFFFF, the modulus of _get_next_command_id *)
IdModulus == <<Half - 1, Half - 1>>

(* (a + b) % 0xFFFFFFFF for a, b <= 0xFFFFFFFF *)
u32_add_mod(a, b) ==
    LET lo == a[2] + b[2]
        hi == a[1] + b[1] + (lo \div Half)
        l == lo % Half
    IN  IF hi >= Half
        THEN (IF l = Half - 1 /\ hi - Half = Half - 1 THEN <<0, 1>>
              ELSE IF l = Half - 1 THEN <<hi - Half + 1, 0>>
              ELSE <<hi - Half, l + 1>>)
        ELSE IF <<hi, l>> = IdModulus THEN <<0, 0>>
        ELSE <<hi, l>>

(* (a - b) % 0xFFFFFFFF for a, b <= 0xFFFFFFFF *)
u32_sub_mod(a, b) == u32_add_mod(a, <<(Half - 1) - b[1], (Half - 1) - b[2]>>)

(* the four bytes least significant first ('<I') *)
pack_u32_le(n) == <<n[2] % 256, n[2] \div 256, n[1] % 256, n[1] \div 256>>

(* struct '>I': an unsigned 32-bit integer, most significant byte first *)
pack_u32(n) == <<n[1] \div 256, n[1] % 256, n[2] \div 256, n[2] % 256>>

unpack_u32(b, i) == <<b[i] * 256 + b[i + 1], b[i + 2] * 256 + b[i + 3]>>

(* A length read from a header, as an integer for slicing. A slice is      *)
(* clamped to the buffer, so every length of SliceCap or more (far beyond  *)
(* any buffer of the model) slices alike.                                  *)
SliceCap == 268435456

slice_len(n) == IF n[1] >= SliceCap \div Half THEN SliceCap ELSE n[1] * Half + n[2]

(* struct.calcsize('>BIIII') *)
header_size == 17

----------------------------------------------------------------------------
(* json.dumps / json.loads on the dicts of the model: string keys, int or  *)
(* str values; the strings are printable ASCII without '"' and '\', which  *)
(* dumps writes verbatim between double quotes.                            *)

QUOTE == 34
COMMA == 44
COLON == 58
SPACE == 32
MINUS == 45
LBRACE == 123
RBRACE == 125
ZERO == 48
BACKSLASH == 92

RECURSIVE dec_digits(_)
dec_digits(n) ==
    IF n < 10 THEN <<ZERO + n>> ELSE Append(dec_digits(n \div 10), ZERO + (n % 10))

json_dumps_value(v) ==
    IF v.t = "int"
    THEN (IF v.n < 0 THEN <<MINUS>> \o dec_digits(-v.n) ELSE dec_digits(v.n))
    ELSE <<QUOTE>> \o v.s \o <<QUOTE>>

RECURSIVE json_dumps_items(_)
json_dumps_items(items) ==
    IF items = <<>> THEN <<>>
    ELSE LET it == Head(items)
             one == <<QUOTE>> \o it[1] \o <<QUOTE, COLON, SPACE>> \o json_dumps_value(it[2])
         IN  IF Len(items) = 1 THEN one
             ELSE one \o <<COMMA, SPACE>> \o json_dumps_items(Tail(items))

(* json.dumps(dict) with the default separators (', ', ': ') *)
json_dumps(args) == <<LBRACE>> \o json_dumps_items(args) \o <<RBRACE>>

IsWs(c) == c \in {32, 9, 10, 13}
IsDigit(c) == c >= ZERO /\ c <= ZERO + 9

RECURSIVE skip_ws(_, _)
skip_ws(t, i) == IF i <= Len(t) /\ IsWs(t[i]) THEN skip_ws(t, i + 1) ELSE i

JFail == [ok |-> FALSE, v |-> JInt(0), next |-> 0]

(* a JSON string starting at t[i] = '"'; control characters and escapes    *)
(* are outside the model's strings and are rejected                        *)
RECURSIVE json_scan_string(_, _, _)
json_scan_string(t, i, acc) ==
    IF i > Len(t) THEN JFail
    ELSE IF t[i] = QUOTE THEN [ok |-> TRUE, v |-> JStr(acc), next |-> i + 1]
    ELSE IF t[i] = BACKSLASH \/ t[i] < 32 THEN JFail
    ELSE json_scan_string(t, i + 1, Append(acc, t[i]))

RECURSIVE json_scan_digits(_, _, _)
json_scan_digits(t, i, acc) ==
    IF i <= Len(t) /\ IsDigit(t[i])
    THEN json_scan_digits(t, i + 1, acc * 10 + (t[i] - ZERO))
    ELSE [ok |-> TRUE, v |-> JInt(acc), next |-> i]

(* a JSON integer: '-'? ( '0' | [1-9][0-9]* ) *)
json_scan_int(t, i) ==
    LET neg == i <= Len(t) /\ t[i] = MINUS
        j == IF neg THEN i + 1 ELSE i
    IN  IF j > Len(t) \/ ~IsDigit(t[j]) THEN JFail
        ELSE LET r == IF t[j] = ZERO
                      THEN [ok |-> TRUE, v |-> JInt(0), next |-> j + 1]
                      ELSE json_scan_digits(t, j, 0)
             IN  IF neg THEN [r EXCEPT !.v = JInt(-r.v.n)] ELSE r

json_scan_value(t, i) ==
    IF i > Len(t) THEN JFail
    ELSE IF t[i] = QUOTE THEN json_scan_string(t, i + 1, <<>>)
    ELSE json_scan_int(t, i)

(* dict[key] = value: a repeated key keeps its place and takes the new value *)
dict_set(items, key, value) ==
    IF \E k \in 1..Len(items) : items[k][1] = key
    THEN [k \in 1..Len(items) |->
            IF items[k][1] = key THEN <<key, value>> ELSE items[k]]
    ELSE Append(items, <<key, value>>)

LFail == [ok |-> FALSE, v |-> <<>>]

(* the members of an object, from the first key at t[i] to the closing '}' *)
(* and the end of the text                                                 *)
RECURSIVE json_scan_members(_, _, _)
json_scan_members(t, i, acc) ==
    IF i > Len(t) \/ t[i] # QUOTE THEN LFail
    ELSE LET k == json_scan_string(t, i + 1, <<>>)
         IN  IF ~k.ok THEN LFail
             ELSE LET c == skip_ws(t, k.next)
                  IN  IF c > Len(t) \/ t[c] # COLON THEN LFail
                      ELSE LET v == json_scan_value(t, skip_ws(t, c + 1))
                           IN  IF ~v.ok THEN LFail
                               ELSE LET e == skip_ws(t, v.next)
                                        acc2 == dict_set(acc, k.v.s, v.v)
                                    IN  IF e > Len(t) THEN LFail
                                        ELSE IF t[e] = COMMA
                                            THEN json_scan_members(t, skip_ws(t, e + 1), acc2)
                                        ELSE IF t[e] = RBRACE /\ skip_ws(t, e + 1) > Len(t)
                                            THEN [ok |-> TRUE, v |-> acc2]
                                        ELSE LFail

(* json.loads of a text that is an object (ok = FALSE: JSONDecodeError).   *)
(* Every text the model parses is a prefix of a json.dumps of a dict, so   *)
(* the other JSON documents (arrays, bare scalars) do not occur.           *)
json_loads(t) ==
    LET i == skip_ws(t, 1)
    IN  IF i > Len(t) \/ t[i] # LBRACE THEN LFail
        ELSE LET j == skip_ws(t, i + 1)
             IN  IF j <= Len(t) /\ t[j] = RBRACE
                 THEN (IF skip_ws(t, j + 1) > Len(t) THEN [ok |-> TRUE, v |-> <<>>] ELSE LFail)
                 ELSE json_scan_members(t, j, <<>>)

----------------------------------------------------------------------------
(* FlipperProtocol.encode_message / decode_message *)

(* encode_message with the args section written before the command *)
encode_message_args_first(msg) ==
    LET command_bytes == utf8_encode(msg.command)
        args_bytes == utf8_encode(json_dumps(msg.args))
        data_bytes == IF msg.data.some THEN msg.data.bytes ELSE <<>>
    IN  [ok |-> msg.type \in 0..255,
         bytes |-> <<msg.type>> \o pack_u32(msg.command_id)
                     \o pack_u32(U32(Len(command_bytes)))
                     \o pack_u32(U32(Len(args_bytes)))
                     \o pack_u32(U32(Len(data_bytes)))
                     \o args_bytes \o command_bytes \o data_bytes]

(* encode_message: ok = FALSE is struct.error (a field out of range) *)
encode_message(msg) ==
    LET command_bytes == utf8_encode(msg.command)
        args_bytes == utf8_encode(json_dumps(msg.args))
        data_bytes == IF msg.data.some /\ msg.data.bytes # <<>> THEN msg.data.bytes ELSE <<>>
    IN  IF msg.type \notin 0..255
        THEN [ok |-> FALSE, bytes |-> <<>>]
        ELSE [ok |-> TRUE,
              bytes |-> <<msg.type>> \o pack_u32(msg.command_id)
                        \o pack_u32(U32(Len(command_bytes)))
                        \o pack_u32(U32(Len(args_bytes)))
                        \o pack_u32(U32(Len(data_bytes)))
                        \o command_bytes \o args_bytes \o data_bytes]

DecodeError(reason) ==
    [ok |-> FALSE, error |-> "FlipperProtocolError", reason |-> reason, msg |-> NoMsg]
DecodeOk(m) == [ok |-> TRUE, error |-> "", reason |-> "", msg |-> m]
NoResult == [ok |-> FALSE, error |-> "", reason |-> "", msg |-> NoMsg]

(* the body of decode_message after the header-length check; struct.unpack *)
(* raises struct.error on a buffer that is not header_size bytes long      *)
decode_sections(data) ==
    IF Len(Slice(data, 0, header_size)) # header_size
    THEN DecodeError("Failed to decode message")
    ELSE
    LET msg_type == data[1]
        cmd_id == unpack_u32(data, 2)
        cmd_len == slice_len(unpack_u32(data, 6))
        args_len == slice_len(unpack_u32(data, 10))
        data_len == slice_len(unpack_u32(data, 14))
        off1 == header_size
        command == utf8_decode(Slice(data, off1, off1 + cmd_len))
        off2 == off1 + cmd_len
        args_data == utf8_decode(Slice(data, off2, off2 + args_len))
        args == IF args_data.s # <<>> THEN json_loads(args_data.s)
                ELSE [ok |-> TRUE, v |-> <<>>]
        off3 == off2 + args_len
        msg_data == IF data_len > 0 THEN SomeData(Slice(data, off3, off3 + data_len))
                    ELSE NoneData
    IN  IF ~command.ok THEN DecodeError("Failed to decode message")
        ELSE IF ~args_data.ok THEN DecodeError("Failed to decode message")
        ELSE IF ~args.ok THEN DecodeError("Failed to decode message")
        ELSE IF msg_type \notin MessageType THEN DecodeError("Failed to decode message")
        ELSE DecodeOk(RPCMessage(msg_type, cmd_id, command.s, args.v, msg_data))

(* a length check that lets a 16-byte buffer through *)
decode_message_off_by_one(data) ==
    IF Len(data) < header_size - 1 THEN DecodeError("Message too short")
    ELSE decode_sections(data)

decode_message(data) ==
    IF Len(data) < header_size THEN DecodeError("Message too short")
    ELSE decode_sections(data)

----------------------------------------------------------------------------
(* The codec driven on its own: a message is encoded, the frame is         *)
(* possibly cut short, and the buffer is decoded.                          *)

STR_ping == <<112, 105, 110, 103>>
STR_pe == <<112, 233>>
STR_euro == <<8364>>
STR_a == <<97>>
STR_b == <<98>>
STR_x == <<120>>
STR_error == <<101, 114, 114, 111, 114>>
STR_Unknown_error == <<85, 110, 107, 110, 111, 119, 110, 32, 101, 114, 114, 111, 114>>

CodecIds == {<<0, 0>>, <<0, 1>>, <<258, 772>>, <<Half - 1, Half - 1>>}
CodecCommands == {<<>>, STR_ping, STR_pe, STR_euro}
CodecArgs ==
    { <<>>,
      << <<STR_a, JInt(7)>> >>,
      << <<STR_error, JStr(STR_x)>> >>,
      << <<STR_b, JInt(-12)>>, <<STR_a, JStr(<<>>)>> >> }
CodecData == {NoneData, SomeData(<<>>), SomeData(<<0>>), SomeData(<<255, 1>>)}

CodecMessages ==
    { RPCMessage(t, i, c, a, d) :
        t \in MessageType, i \in CodecIds, c \in CodecCommands,
        a \in CodecArgs, d \in CodecData }

(* Optional[str] *)
NoneStr == [some |-> FALSE, str |-> <<>>]
SomeStr(s) == [some |-> TRUE, str |-> s]

(* a float that is a quotient of two integers, kept exactly: num / den *)
Quotient(n, d) == [num |-> n, den |-> d]

(* SubGHzSignal.metadata: {} or {'bit_rate': rate} *)
EmptyMetadata == [has_bit_rate |-> FALSE, bit_rate |-> Quotient(0, 1)]
BitRateMetadata(rate) == [has_bit_rate |-> TRUE, bit_rate |-> rate]

(* no analyzer call made, no value returned *)
NoCall == [fn |-> "none"]

(* no get_next_event call is suspended *)
QueueIdle ==
    /\ enqueued = <<>>
    /\ getters = 0
    /\ woken = 0

(* no analyzer function has been applied *)
AnalyzerIdle ==
    /\ a_in = NoCall
    /\ a_out = NoCall

(* no signal has been created *)
SignalIdle ==
    /\ frequency = 0
    /\ modulation = "none"
    /\ raw_samples = <<>>
    /\ pulses = <<>>
    /\ decoded_data = NoneData
    /\ protocol = NoneStr
    /\ metadata = EmptyMetadata
    /\ analyzed = "never"
    /\ added = 0

(* no DeviceManager has been constructed *)
DeviceIdle ==
    /\ manager = NoCall
    /\ coroutines = NoCall
    /\ transmit = NoCall

SessionInit ==
    /\ command_id = <<0, 0>>
    /\ responses = <<>>
    /\ events = <<>>
    /\ calls = <<>>
    /\ wire = <<>>
    /\ received = <<>>
    /\ ignored = "none"
    /\ bursts = 0

CodecIdle ==
    /\ c_msg = NoMsg
    /\ c_buf = <<>>
    /\ c_out = NoResult
    /\ c_pc = "start"

CodecInit ==
    /\ SessionInit
    /\ QueueIdle
    /\ DeviceIdle
    /\ AnalyzerIdle
    /\ SignalIdle
    /\ c_msg \in CodecMessages
    /\ c_buf = <<>>
    /\ c_out = NoResult
    /\ c_pc = "start"

Encode ==
    /\ c_pc = "start"
    /\ encode_message(c_msg).ok
    /\ c_buf' = encode_message(c_msg).bytes
    /\ c_pc' = "encoded"
    /\ UNCHANGED <<c_msg, c_out>>
    /\ UNCHANGED <<sessionVars, queueVars, subghzVars, deviceVars>>

(* the transport delivers only the first n bytes of the frame *)
Truncate(n) ==
    /\ c_pc = "encoded"
    /\ c_buf' = SubSeq(c_buf, 1, n)
    /\ c_pc' = "truncated"
    /\ UNCHANGED <<c_msg, c_out>>
    /\ UNCHANGED <<sessionVars, queueVars, subghzVars, deviceVars>>

Decode ==
    /\ c_pc \in {"encoded", "truncated"}
    /\ c_out' = decode_message(c_buf)
    /\ c_pc' = "decoded"
    /\ UNCHANGED <<c_msg, c_buf>>
    /\ UNCHANGED <<sessionVars, queueVars, subghzVars, deviceVars>>

CodecNext ==
    \/ Encode
    \/ \E n \in 0..(Len(c_buf) - 1) : Truncate(n)
    \/ Decode

SpecCodec == CodecInit /\ [][CodecNext]_vars

----------------------------------------------------------------------------
(* The session: send_command coroutines, their futures, and the handlers.  *)
(*                                                                         *)
(* A call is [id, pc, fut, outcome]:                                       *)
(*   pc   "suspended"   in `await asyncio.wait_for(future, timeout)`       *)
(*        "timing_out"  the timeout fired and cancelled the future; the    *)
(*                      coroutine has not run its finally block yet        *)
(*        "exited"      send_command has returned or raised                *)
(*   fut  the asyncio future: pending, done (with its result) or cancelled *)
(*   registered_at_write  history: whether the call's id was a key of      *)
(*        _responses when the call reached transport.write                 *)

PendingFuture == [state |-> "pending", result |-> NoMsg]
DoneFuture(m) == [state |-> "done", result |-> m]
CancelledFuture == [state |-> "cancelled", result |-> NoMsg]

NoOutcome == [kind |-> "none", msg |-> NoMsg, text |-> JStr(<<>>)]
Returned(m) == [kind |-> "returned", msg |-> m, text |-> JStr(<<>>)]
Raised(kind, text) == [kind |-> kind, msg |-> NoMsg, text |-> text]

(* _get_next_command_id: (command_id + 1) % 0xFFFFFFFF *)
next_command_id(cid) == u32_add_mod(cid, <<0, 1>>)

(* self._responses.pop(cmd_id, None) *)
pop_keeps_entry(cmd_id) == responses

pop_response(cmd_id) ==
    [k \in DOMAIN responses \ {cmd_id} |-> responses[k]]

register_nothing(cmd_id, call) == responses

(* self._responses[cmd_id] = future *)
register(cmd_id, call) ==
    [k \in DOMAIN responses \cup {cmd_id} |-> IF k = cmd_id THEN call ELSE responses[k]]

(* the Command message send_command builds: command, args or {}, data *)
command_message(cmd_id) == RPCMessage(COMMAND, cmd_id, STR_ping, <<>>, NoneData)

(* send_command up to its await: the id is allocated, the future is        *)
(* registered, the frame is encoded and written, the coroutine suspends.   *)
SendCommand ==
    /\ Len(calls) < MaxCalls
    /\ LET cmd_id == next_command_id(command_id)
           registered == register(cmd_id, Len(calls) + 1)
           encoded == encode_message(command_message(cmd_id))
       IN  /\ encoded.ok
           /\ command_id' = cmd_id
           /\ responses' = registered
           /\ wire' = encoded.bytes
           /\ calls' = Append(calls, [id |-> cmd_id, pc |-> "suspended",
                                      fut |-> PendingFuture, outcome |-> NoOutcome,
                                      registered_at_write |-> cmd_id \in DOMAIN registered])
    /\ UNCHANGED <<events, received, ignored, bursts>>
    /\ UNCHANGED <<codecVars, queueVars, subghzVars, deviceVars>>

(* send_command when transport.write raises: the future was registered     *)
(* before the write, and the finally block pops the id on the way out.     *)
SendCommandWriteFails ==
    /\ Len(calls) < MaxCalls
    /\ LET cmd_id == next_command_id(command_id)
           registered == register(cmd_id, Len(calls) + 1)
       IN  /\ command_id' = cmd_id
           /\ responses' = pop_response(cmd_id)
           /\ calls' = Append(calls, [id |-> cmd_id, pc |-> "exited",
                                      fut |-> PendingFuture,
                                      outcome |-> Raised("WriteError", JStr(<<>>)),
                                      registered_at_write |-> cmd_id \in DOMAIN registered])
    /\ UNCHANGED <<events, wire, received, ignored, bursts>>
    /\ UNCHANGED <<codecVars, queueVars, subghzVars, deviceVars>>

(* The messages that arrive for handle_response: a Response, an Error with *)
(* and without an 'error' argument, or an Event, for an id some call has   *)
(* used or for the id no call has used yet.                                *)
ArrivalIds == {calls[i].id : i \in 1..Len(calls)} \cup {next_command_id(command_id)}

ArrivalKinds ==
    { <<RESPONSE, <<>> >>, <<ERROR, <<>> >>,
      <<ERROR, << <<STR_error, JStr(STR_x)>> >> >>, <<EVENT, <<>> >> }

Arrivals ==
    { RPCMessage(k[1], i, STR_ping, k[2], NoneData) : k \in ArrivalKinds, i \in ArrivalIds }

(* The message that arrives for handle_event: an Event carrying the id of  *)
(* the first call (of the next call when there is none yet).               *)
EventArrivals ==
    { RPCMessage(EVENT, IF calls = <<>> THEN next_command_id(command_id) ELSE calls[1].id,
                 STR_ping, <<>>, NoneData) }

(* the futures a response resolves: any registered future, whatever its id *)
resolved_by_any(message) ==
    IF DOMAIN responses = {} THEN {}
    ELSE {responses[CHOOSE k \in DOMAIN responses : \A j \in DOMAIN responses :
                        k = j \/ u32_lt(k, j)]}

(* handle_response: the future registered under message.command_id, if any *)
resolved_by(message) ==
    IF message.command_id \in DOMAIN responses
    THEN {responses[message.command_id]}
    ELSE {}

never_done(fut) == FALSE

(* future.done(): the future has a result or is cancelled *)
done(fut) == fut.state # "pending"

(* handle_response(message) *)
HandleResponse(message) ==
    LET hit == {i \in resolved_by(message) : ~done(calls[i].fut)}
    IN  /\ IF hit # {}
           THEN /\ calls' = [i \in 1..Len(calls) |->
                                IF i \in hit
                                THEN [calls[i] EXCEPT !.fut = DoneFuture(message)]
                                ELSE calls[i]]
                /\ UNCHANGED ignored
           ELSE /\ ignored' = IF resolved_by(message) = {}
                               THEN "unregistered" ELSE "not_pending"
                /\ UNCHANGED calls
        /\ UNCHANGED <<command_id, responses, events, wire, received, bursts>>
        /\ UNCHANGED <<codecVars, queueVars, subghzVars, deviceVars>>

(* handle_event(message): put_nowait on the unbounded queue *)
HandleEvent(message) ==
    /\ Len(events) + Len(received) < MaxEvents
    /\ events' = Append(events, message)
    /\ UNCHANGED <<command_id, responses, calls, wire, received, ignored, bursts>>
    /\ UNCHANGED <<codecVars, queueVars, subghzVars, deviceVars>>

(* get_next_event: returns the head of the queue; on an empty queue the    *)
(* caller stays suspended                                                  *)
GetNextEvent ==
    /\ events # <<>>
    /\ received' = Append(received, Head(events))
    /\ events' = Tail(events)
    /\ UNCHANGED <<command_id, responses, calls, wire, ignored, bursts>>
    /\ UNCHANGED <<codecVars, queueVars, subghzVars, deviceVars>>

(* every response is returned, an Error one too *)
outcome_always_returns(response) == Returned(response)

(* what send_command does with the response it awaited *)
outcome_of(response) ==
    IF response.type = ERROR
    THEN Raised("FlipperProtocolError",
                dict_get(response.args, STR_error, JStr(STR_Unknown_error)))
    ELSE Returned(response)

(* the awaited future is done: send_command resumes, raises or returns,    *)
(* and its finally block pops the id                                       *)
Resume(i) ==
    /\ calls[i].pc = "suspended"
    /\ calls[i].fut.state = "done"
    /\ calls' = [calls EXCEPT ![i].pc = "exited",
                              ![i].outcome = outcome_of(calls[i].fut.result)]
    /\ responses' = pop_response(calls[i].id)
    /\ UNCHANGED <<command_id, events, wire, received, ignored, bursts>>
    /\ UNCHANGED <<codecVars, queueVars, subghzVars, deviceVars>>

(* the timeout of wait_for fires before the future is done: wait_for       *)
(* cancels the future and the coroutine is woken                           *)
TimeoutFires(i) ==
    /\ calls[i].pc = "suspended"
    /\ calls[i].fut.state = "pending"
    /\ calls' = [calls EXCEPT ![i].pc = "timing_out", ![i].fut = CancelledFuture]
    /\ UNCHANGED <<command_id, responses, events, wire, received, ignored, bursts>>
    /\ UNCHANGED <<codecVars, queueVars, subghzVars, deviceVars>>

(* the woken coroutine raises asyncio.TimeoutError through the finally     *)
(* block, which pops the id                                                *)
TimeoutExit(i) ==
    /\ calls[i].pc = "timing_out"
    /\ calls' = [calls EXCEPT ![i].pc = "exited",
                              ![i].outcome = Raised("TimeoutError", JStr(<<>>))]
    /\ responses' = pop_response(calls[i].id)
    /\ UNCHANGED <<command_id, events, wire, received, ignored, bursts>>
    /\ UNCHANGED <<codecVars, queueVars, subghzVars, deviceVars>>

(* A run of n send_command calls, n = 0xFFFFFFFE, each of                  *)
(* which times out and exits before anything else happens: each allocates  *)
(* the next id, registers its future under it (replacing whatever was      *)
(* registered there), writes its frame, and pops the id again on its way   *)
(* out. What remains of the run: the counter has advanced by n, every id   *)
(* the run used is gone from the table, the last frame is on the wire.     *)
BurstLengths == {<<Half - 1, Half - 2>>}

(* whether a run of n calls starting after counter value cid uses id k *)
burst_uses(cid, n, k) ==
    u32_lt(u32_sub_mod(u32_sub_mod(k, cid), <<0, 1>>), n)

SendTimeoutBurst(n) ==
    /\ bursts < MaxBursts
    /\ bursts' = bursts + 1
    /\ command_id' = u32_add_mod(command_id, n)
    /\ responses' = [k \in {j \in DOMAIN responses : ~burst_uses(command_id, n, j)}
                        |-> responses[k]]
    /\ wire' = encode_message(command_message(u32_add_mod(command_id, n))).bytes
    /\ UNCHANGED <<events, calls, received, ignored>>
    /\ UNCHANGED <<codecVars, queueVars, subghzVars, deviceVars>>

Next ==
    \/ SendCommand
    \/ SendCommandWriteFails
    \/ \E m \in Arrivals : HandleResponse(m)
    \/ \E m \in EventArrivals : HandleEvent(m)
    \/ GetNextEvent
    \/ \E i \in 1..Len(calls) : Resume(i)
    \/ \E i \in 1..Len(calls) : TimeoutFires(i)
    \/ \E i \in 1..Len(calls) : TimeoutExit(i)
    \/ \E n \in BurstLengths : SendTimeoutBurst(n)

Init == SessionInit /\ CodecIdle /\ QueueIdle /\ AnalyzerIdle /\ SignalIdle /\ DeviceIdle

Spec == Init /\ [][Next]_vars

----------------------------------------------------------------------------
(* The event queue in detail: handle_event puts on self._events            *)
(* (asyncio.Queue(), unbounded) and get_next_event awaits its get().       *)
(* Queue.get suspends on a future in _getters while the queue is empty;    *)
(* put_nowait appends the item and wakes the first waiting getter, which   *)
(* resumes on a later loop iteration, tests the queue again and either     *)
(* takes the head or suspends again.                                       *)

MaxQueued == 3    \* events handled by handle_event
MaxGets == 3      \* get_next_event calls made

QueueEvents ==
    { RPCMessage(EVENT, <<0, 0>>, STR_ping, <<>>, NoneData),
      RPCMessage(EVENT, <<0, 1>>, STR_pe, <<>>, NoneData) }

put_front(queue, item) == <<item>> \o queue

(* Queue._put: deque.append *)
put_nowait(queue, item) == Append(queue, item)

(* Queue._get: deque.popleft *)
get_nowait(queue) == [item |-> Head(queue), rest |-> Tail(queue)]

(* handle_event(message): put_nowait, then Queue._wakeup_next(_getters) *)
EventArrives(message) ==
    /\ Len(enqueued) < MaxQueued
    /\ events' = put_nowait(events, message)
    /\ enqueued' = Append(enqueued, message)
    /\ IF getters > 0
       THEN getters' = getters - 1 /\ woken' = woken + 1
       ELSE UNCHANGED <<getters, woken>>
    /\ UNCHANGED <<command_id, responses, calls, wire, received, ignored, bursts>>
    /\ UNCHANGED <<codecVars, subghzVars, deviceVars>>

(* get_next_event() is called: Queue.get up to its first suspension *)
GetNextEventCall ==
    /\ Len(received) + getters + woken < MaxGets
    /\ IF events = <<>>
       THEN /\ getters' = getters + 1
            /\ UNCHANGED <<events, received>>
       ELSE /\ received' = Append(received, get_nowait(events).item)
            /\ events' = get_nowait(events).rest
            /\ UNCHANGED getters
    /\ UNCHANGED <<woken, enqueued>>
    /\ UNCHANGED <<command_id, responses, calls, wire, ignored, bursts>>
    /\ UNCHANGED <<codecVars, subghzVars, deviceVars>>

(* a woken get_next_event() resumes: the while self.empty() test again *)
GetNextEventResume ==
    /\ woken > 0
    /\ woken' = woken - 1
    /\ IF events = <<>>
       THEN /\ getters' = getters + 1
            /\ UNCHANGED <<events, received>>
       ELSE /\ received' = Append(received, get_nowait(events).item)
            /\ events' = get_nowait(events).rest
            /\ UNCHANGED getters
    /\ UNCHANGED enqueued
    /\ UNCHANGED <<command_id, responses, calls, wire, ignored, bursts>>
    /\ UNCHANGED <<codecVars, subghzVars, deviceVars>>

QueueNext ==
    \/ \E m \in QueueEvents : EventArrives(m)
    \/ GetNextEventCall
    \/ GetNextEventResume

SpecQueue == Init /\ [][QueueNext]_vars

----------------------------------------------------------------------------
(* Sub-GHz protocols and signal analysis (src/src/device/subghz.py).       *)
(*                                                                         *)
(* Frequencies and frequency tolerances are in units of 0.01 MHz (433.92   *)
(* MHz is 43392): the catalog's frequencies are multiples of it, and the   *)
(* difference of two floats this close is computed without rounding.  A    *)
(* decimal value that has no exact float stands for the float nearest to   *)
(* it, so a decimal input exactly on a tolerance bound may fall on either  *)
(* side of it (433.82 is not within 0.1 of 433.92 as floats).              *)
(* Samples are amplitudes in tenths, signed (abs is taken by the code),    *)
(* and so is the threshold (0.5 is 5).  A tolerance of decode_manchester   *)
(* is a fraction <<num, den>> (0.2 is <<1, 5>>).                           *)

ModulationType == {"AM", "FM", "ASK", "FSK", "OOK", "PSK"}
DecodingType == {"manchester", "differential", "binary", "pwm", "raw"}


SubGHzProtocolInfo(key, name, frequencies, mod, bit_rate, decode_type, min_repeats) ==
    [key |-> key, name |-> name, frequencies |-> frequencies, modulation |-> mod,
     bit_rate |-> bit_rate, decode_type |-> decode_type, min_repeats |-> min_repeats]

(* SubGHzProtocolRegistry.PROTOCOLS, in the dict's (insertion) order; keys *)
(* and names are strings, written as their code points                    *)
PROTOCOLS ==
    << SubGHzProtocolInfo(\* "princeton", "Princeton"
           <<112, 114, 105, 110, 99, 101, 116, 111, 110>>,
           <<80, 114, 105, 110, 99, 101, 116, 111, 110>>,
           <<43392>>, "ASK", 2000, "manchester", 2),
       SubGHzProtocolInfo(\* "keeloq", "KeeLoq"
           <<107, 101, 101, 108, 111, 113>>,
           <<75, 101, 101, 76, 111, 113>>,
           <<43392, 43442, 86835>>, "FSK", 1500, "manchester", 2),
       SubGHzProtocolInfo(\* "nice_flor_s", "Nice FLO"
           <<110, 105, 99, 101, 95, 102, 108, 111, 114, 95, 115>>,
           <<78, 105, 99, 101, 32, 70, 76, 79>>,
           <<43392>>, "AM", 1000, "manchester", 3),
       SubGHzProtocolInfo(\* "chamberlain", "Chamberlain"
           <<99, 104, 97, 109, 98, 101, 114, 108, 97, 105, 110>>,
           <<67, 104, 97, 109, 98, 101, 114, 108, 97, 105, 110>>,
           <<30000, 39000>>, "OOK", 2000, "binary", 2) >>

(* str.lower() and str.upper() on ASCII code points *)
lower(name) ==
    [i \in 1..Len(name) |-> IF name[i] >= 65 /\ name[i] <= 90 THEN name[i] + 32 ELSE name[i]]
upper(name) ==
    [i \in 1..Len(name) |-> IF name[i] >= 97 /\ name[i] <= 122 THEN name[i] - 32 ELSE name[i]]

(* Optional[SubGHzProtocolInfo]: NoProtocol is None *)
NoProtocol == [found |-> FALSE, info |-> [key |-> <<>>]]
SomeProtocol(info) == [found |-> TRUE, info |-> info]

(* PROTOCOLS.get(key)                                                      *)
protocols_get(key) ==
    IF \E k \in 1..Len(PROTOCOLS) : PROTOCOLS[k].key = key
    THEN SomeProtocol(PROTOCOLS[CHOOSE k \in 1..Len(PROTOCOLS) : PROTOCOLS[k].key = key])
    ELSE NoProtocol

(* SubGHzProtocolRegistry.get_protocol: cls.PROTOCOLS.get(name.lower()) *)
get_protocol(name) == protocols_get(lower(name))

Abs(x) == IF x < 0 THEN -x ELSE x

(* tolerance: float = 0.1 *)
DefaultFrequencyTolerance == 10

frequency_matches_always(protocol_freq, freq, tolerance) == TRUE

frequency_matches_strict(protocol_freq, freq, tolerance) ==
    Abs(protocol_freq - freq) < tolerance

(* abs(protocol_freq - freq) <= tolerance *)
frequency_matches(protocol_freq, freq, tolerance) ==
    Abs(protocol_freq - freq) <= tolerance

(* the inner loop over protocol.frequencies from index i: TRUE when it     *)
(* appends the protocol and breaks                                         *)
RECURSIVE appends_protocol(_, _, _, _)
appends_protocol(frequencies, i, freq, tolerance) ==
    IF i > Len(frequencies) THEN FALSE
    ELSE IF frequency_matches(frequencies[i], freq, tolerance) THEN TRUE
    ELSE appends_protocol(frequencies, i + 1, freq, tolerance)

(* the outer loop over PROTOCOLS.values() from index k *)
RECURSIVE matching_from(_, _, _)
matching_from(k, freq, tolerance) ==
    IF k > Len(PROTOCOLS) THEN <<>>
    ELSE (IF appends_protocol(PROTOCOLS[k].frequencies, 1, freq, tolerance)
          THEN <<PROTOCOLS[k]>> ELSE <<>>)
         \o matching_from(k + 1, freq, tolerance)

get_protocols_for_frequency(freq, tolerance) == matching_from(1, freq, tolerance)

(* SignalAnalyzer.extract_pulses *)

(* threshold: float = 0.5 *)
DefaultThreshold == 5

(* binary = np.abs(samples) > threshold *)
binary(samples, threshold) == [i \in 1..Len(samples) |-> Abs(samples[i]) > threshold]

transition_points_with_start(samples, threshold) ==
    LET b == binary(samples, threshold)
    IN  IF Len(samples) = 0 THEN <<>>
        ELSE <<0>> \o SelectSeq([i \in 1..(Len(samples) - 1) |-> i],
                                LAMBDA i : b[i] # b[i + 1])

(* np.where(np.diff(binary.astype(int)) != 0)[0]: the indices i, ascending, *)
(* with binary[i] # binary[i + 1] (counted from 1 here, from 0 in numpy;    *)
(* only their differences are used)                                        *)
transition_points(samples, threshold) ==
    LET b == binary(samples, threshold)
    IN  SelectSeq([i \in 1..(Len(samples) - 1) |-> i], LAMBDA i : b[i] # b[i + 1])

extract_pulses(samples, threshold) ==
    LET points == transition_points(samples, threshold)
    IN  IF Len(points) < 2 THEN <<>>
        ELSE [i \in 1..(Len(points) - 1) |-> points[i + 1] - points[i]]

(* SignalAnalyzer.detect_bit_rate *)

(* the loop filling pulse_counts, a dict: its items <<pulse, count>> in    *)
(* insertion order, that is, by the first position of each pulse length,  *)
(* each with the number of positions holding it                           *)
count_pulses(ps) ==
    LET firsts == SelectSeq([i \in 1..Len(ps) |-> i],
                            LAMBDA i : \A j \in 1..(i - 1) : ps[j] # ps[i])
    IN  [k \in 1..Len(firsts) |->
            <<ps[firsts[k]], Cardinality({j \in 1..Len(ps) : ps[j] = ps[firsts[k]]})>>]

RECURSIVE last_max_item(_, _, _)
last_max_item(counts, i, best) ==
    IF i > Len(counts) THEN best
    ELSE last_max_item(counts, i + 1, IF counts[i][2] >= best[2] THEN counts[i] ELSE best)

(* max(items, key=lambda x: x[1]): the first item with the largest count *)
RECURSIVE max_item(_, _, _)
max_item(counts, i, best) ==
    IF i > Len(counts) THEN best
    ELSE max_item(counts, i + 1, IF counts[i][2] > best[2] THEN counts[i] ELSE best)

RateError == [raised |-> TRUE, error |-> "ZeroDivisionError", rate |-> Quotient(0, 1)]
Rate(q) == [raised |-> FALSE, error |-> "", rate |-> q]

detect_bit_rate(ps) ==
    IF ps = <<>> THEN Rate(Quotient(0, 1))
    ELSE LET pulse_counts == count_pulses(ps)
             base_length == max_item(pulse_counts, 2, pulse_counts[1])[1]
         IN  IF base_length = 0 THEN RateError
             ELSE Rate(Quotient(1000000, base_length))

(* SignalAnalyzer.decode_manchester *)

(* tolerance: float = 0.2 *)
DefaultTolerance == <<1, 5>>

(* min(pulses) *)
min_pulse(ps) == CHOOSE least \in {ps[i] : i \in 1..Len(ps)} : \A i \in 1..Len(ps) : least <= ps[i]

(* abs(p - clock) <= tolerance * clock, with tolerance = num / den *)
within_tolerance(p, clock, tolerance) ==
    tolerance[2] * Abs(p - clock) <= tolerance[1] * clock

BitsError == [ok |-> FALSE, bits |-> <<>>]
Bits(bits) == [ok |-> TRUE, bits |-> bits]

(* the pairs p1, p2 = pulses[i], pulses[i + 1] the while loop visits: i =   *)
(* 0, 2, 4, ... while i < len(pulses) - 1; pair k is ps[2k - 1], ps[2k]    *)
pair_in_band(ps, k, clock, tolerance) ==
    /\ within_tolerance(ps[2 * k - 1], clock, tolerance)
    /\ within_tolerance(ps[2 * k], clock, tolerance)

pair_bit(ps, k) == IF ps[2 * k - 1] > ps[2 * k] THEN 1 ELSE 0

manchester_bits_best_effort(ps, clock, tolerance) ==
    LET good == SelectSeq([k \in 1..(Len(ps) \div 2) |-> k],
                          LAMBDA k : pair_in_band(ps, k, clock, tolerance))
    IN  Bits([n \in 1..Len(good) |-> pair_bit(ps, good[n])])

(* the while loop: return None at the first pair out of the band, else one *)
(* bit per pair                                                            *)
manchester_bits(ps, clock, tolerance) ==
    IF \E k \in 1..(Len(ps) \div 2) : ~pair_in_band(ps, k, clock, tolerance)
    THEN BitsError
    ELSE Bits([k \in 1..(Len(ps) \div 2) |-> pair_bit(ps, k)])

RECURSIVE byte_lsb_first(_, _, _, _)
byte_lsb_first(bits, i, j, byte) ==
    IF j = 8 THEN byte
    ELSE byte_lsb_first(bits, i, j + 1, ((byte * 2) % 256) + bits[i + 7 - j])

(* for j in range(8): byte = (byte << 1) | bits[i + j], i counted from 1 *)
RECURSIVE byte_from(_, _, _, _)
byte_from(bits, i, j, byte) ==
    IF j = 8 THEN byte
    ELSE byte_from(bits, i, j + 1, (byte * 2) + bits[i + j])

(* for i in range(0, len(bits), 8): if i + 8 <= len(bits): append the byte *)
pack_bits(bits) ==
    [k \in 1..(Len(bits) \div 8) |-> byte_from(bits, 8 * (k - 1) + 1, 0, 0)]

(* Optional[bytes]: NoneData is None *)
decode_manchester(ps, tolerance) ==
    IF ps = <<>> \/ Len(ps) < 2 THEN NoneData
    ELSE LET clock == min_pulse(ps)
             decoded == manchester_bits(ps, clock, tolerance)
         IN  IF ~decoded.ok THEN NoneData
             ELSE IF decoded.bits = <<>> THEN NoneData
             ELSE SomeData(pack_bits(decoded.bits))

(* The analyzer functions applied to arguments drawn from bounded sets.    *)

MaxSamples == 6    \* longest sample buffer given to extract_pulses
MaxPulses == 4     \* longest pulse list made of arbitrary values
MaxBits == 9       \* longest pulse list made of bit pairs, in pairs

(* sample buffers of up to n samples *)
SampleInputs(n) == UNION { [1..k -> {-10, 0, 5, 10}] : k \in 0..n }

(* pulse lists of up to n pulses *)
ShortPulses(n) == UNION { [1..k -> {5, 7, 10, 12, 13}] : k \in 0..n }

(* pulse lists that are one in-band pair per bit (12, 10 for 1 and 10, 12  *)
(* for 0), with or without an unpaired last pulse                          *)
RECURSIVE pulses_of_bits(_, _)
pulses_of_bits(bits, i) ==
    IF i > Len(bits) THEN <<>>
    ELSE (IF bits[i] = 1 THEN <<12, 10>> ELSE <<10, 12>>) \o pulses_of_bits(bits, i + 1)

LongPulses(n) ==
    { pulses_of_bits(bits, 1) \o last :
        bits \in UNION { [1..k -> {0, 1}] : k \in 8..n }
                 \cup { <<1, 0, 1, 0, 0, 1, 0, 1, 0, 0, 0, 0, 1, 1, 1, 1>>,
                        <<0, 0, 0, 0, 0, 0, 0, 1, 1, 0, 0, 0, 0, 0, 0, 0, 1>> },
        last \in {<<>>, <<10>>, <<13>>} }

(* frequencies and tolerances whose floats compare as their decimal values *)
FrequencyInputs == {0, 30025, 30026, 34500, 43392, 43402, 43403, 43417, 86835}

(* names looked up: every catalog name and key as written, in lower and in *)
(* upper case, and "x", "Nice", "nice_flo"                                 *)
NameInputs ==
    UNION { {PROTOCOLS[k].name, lower(PROTOCOLS[k].name), upper(PROTOCOLS[k].name),
             PROTOCOLS[k].key, upper(PROTOCOLS[k].key)} : k \in 1..Len(PROTOCOLS) }
    \cup { <<120>>, <<78, 105, 99, 101>>, <<110, 105, 99, 101, 95, 102, 108, 111>> }

(* the calls made with n = <<MaxSamples, MaxPulses, MaxBits>> *)
AnalyzerInputs(n) ==
    { [fn |-> "extract_pulses", samples |-> s, threshold |-> t] :
        s \in SampleInputs(n[1]), t \in {4, DefaultThreshold} }
    \cup { [fn |-> "detect_bit_rate", pulses |-> p] : p \in ShortPulses(n[2]) }
    \cup { [fn |-> "decode_manchester", pulses |-> p, tolerance |-> t] :
             p \in ShortPulses(n[2]) \cup LongPulses(n[3]),
             t \in {DefaultTolerance, <<1, 2>>} }
    \cup { [fn |-> "get_protocols_for_frequency", freq |-> f, tolerance |-> t] :
             f \in FrequencyInputs,
             t \in {0, DefaultFrequencyTolerance, 25, 4500} }
    \cup { [fn |-> "get_protocol", name |-> name] : name \in NameInputs }

AnalyzerInit ==
    /\ SessionInit
    /\ CodecIdle
    /\ QueueIdle
    /\ DeviceIdle
    /\ SignalIdle
    /\ a_in \in AnalyzerInputs(<<MaxSamples, MaxPulses, MaxBits>>)
    /\ a_out = NoCall

ExtractPulses ==
    /\ a_in.fn = "extract_pulses"
    /\ a_out = NoCall
    /\ a_out' = [fn |-> "extract_pulses",
                 pulses |-> extract_pulses(a_in.samples, a_in.threshold)]
    /\ UNCHANGED <<a_in, sessionVars, codecVars, queueVars, signalVars, deviceVars>>

DetectBitRate ==
    /\ a_in.fn = "detect_bit_rate"
    /\ a_out = NoCall
    /\ a_out' = [fn |-> "detect_bit_rate", result |-> detect_bit_rate(a_in.pulses)]
    /\ UNCHANGED <<a_in, sessionVars, codecVars, queueVars, signalVars, deviceVars>>

DecodeManchester ==
    /\ a_in.fn = "decode_manchester"
    /\ a_out = NoCall
    /\ a_out' = [fn |-> "decode_manchester",
                 data |-> decode_manchester(a_in.pulses, a_in.tolerance)]
    /\ UNCHANGED <<a_in, sessionVars, codecVars, queueVars, signalVars, deviceVars>>

GetProtocolsForFrequency ==
    /\ a_in.fn = "get_protocols_for_frequency"
    /\ a_out = NoCall
    /\ a_out' = [fn |-> "get_protocols_for_frequency",
                 matching |-> get_protocols_for_frequency(a_in.freq, a_in.tolerance)]
    /\ UNCHANGED <<a_in, sessionVars, codecVars, queueVars, signalVars, deviceVars>>

GetProtocol ==
    /\ a_in.fn = "get_protocol"
    /\ a_out = NoCall
    /\ a_out' = [fn |-> "get_protocol", result |-> get_protocol(a_in.name)]
    /\ UNCHANGED <<a_in, sessionVars, codecVars, queueVars, signalVars, deviceVars>>

AnalyzerNext ==
    \/ ExtractPulses
    \/ DetectBitRate
    \/ DecodeManchester
    \/ GetProtocolsForFrequency
    \/ GetProtocol

SpecAnalyzer == AnalyzerInit /\ [][AnalyzerNext]_vars

(* SubGHzSignal: a signal is created, samples are added, analyze() is      *)
(* called any number of times.                                             *)

MaxAdds == 2    \* add_samples calls on one signal

(* the samples of consecutive runs of the given lengths, alternately 0.0   *)
(* and 1.0, starting from run i at the given level                         *)
RECURSIVE samples_of_runs(_, _, _)
samples_of_runs(runs, i, level) ==
    IF i > Len(runs) THEN <<>>
    ELSE [k \in 1..runs[i] |-> level] \o samples_of_runs(runs, i + 1, 10 - level)

(* the buffers given to add_samples: silence, one edge, a burst of two    *)
(* pulses, a burst of pulses 2 and 5, and a burst of 16 pulses of 5 or 6   *)
(* samples carrying the bits 1,0,1,0,0,1,0,1                               *)
SampleChunks ==
    { <<0, 0>>,
      <<0, 10>>,
      <<0, 0, 10, 10, 0, 0, 10>>,
      <<0, 10, 10, 0, 0, 0, 0, 0, 10>>,
      samples_of_runs(<<1, 6, 5, 5, 6, 6, 5, 5, 6, 5, 6, 6, 5, 5, 6, 6, 5, 1>>, 1, 0) }

(* SubGHzSignal.__init__(frequency, modulation) *)
SignalInit ==
    /\ SessionInit
    /\ CodecIdle
    /\ QueueIdle
    /\ DeviceIdle
    /\ AnalyzerIdle
    /\ frequency \in {30000, 43392, 43402, 43403, 86835}
    /\ modulation \in ModulationType
    /\ raw_samples = <<>>
    /\ pulses = <<>>
    /\ decoded_data = NoneData
    /\ protocol = NoneStr
    /\ metadata = EmptyMetadata
    /\ analyzed = "never"
    /\ added = 0

replace_samples(buffer, samples) == samples

(* np.concatenate([self.raw_samples, samples]) *)
concatenate(buffer, samples) == buffer \o samples

(* add_samples(samples) *)
AddSamples(samples) ==
    /\ added < MaxAdds
    /\ raw_samples' = concatenate(raw_samples, samples)
    /\ added' = added + 1
    /\ UNCHANGED <<frequency, modulation, pulses, decoded_data, protocol, metadata, analyzed>>
    /\ UNCHANGED <<sessionVars, codecVars, queueVars, analyzerVars, deviceVars>>

always_truthy(data) == TRUE

(* `if data:` on an Optional[bytes] *)
truthy(data) == data.some /\ data.bytes # <<>>

NotDecoded == [found |-> FALSE, data |-> NoneData, name |-> <<>>]

(* the loop over potential_protocols from index i *)
RECURSIVE first_decoded(_, _, _, _)
first_decoded(potential_protocols, i, mod, ps) ==
    IF i > Len(potential_protocols) THEN NotDecoded
    ELSE LET protocol_info == potential_protocols[i]
             data == decode_manchester(ps, DefaultTolerance)
         IN  IF /\ protocol_info.modulation = mod
                /\ protocol_info.decode_type = "manchester"
                /\ truthy(data)
             THEN [found |-> TRUE, data |-> data, name |-> protocol_info.name]
             ELSE first_decoded(potential_protocols, i + 1, mod, ps)

(* analyze() *)
Analyze ==
    LET new_pulses == extract_pulses(raw_samples, DefaultThreshold)
        bit_rate == detect_bit_rate(new_pulses)
        potential_protocols == get_protocols_for_frequency(frequency, DefaultFrequencyTolerance)
        decoded == first_decoded(potential_protocols, 1, modulation, new_pulses)
    IN  /\ IF Len(raw_samples) = 0
           THEN /\ analyzed' = "returned"
                /\ UNCHANGED <<pulses, metadata, decoded_data, protocol>>
           ELSE IF new_pulses = <<>>
           THEN /\ pulses' = new_pulses
                /\ analyzed' = "returned"
                /\ UNCHANGED <<metadata, decoded_data, protocol>>
           ELSE IF bit_rate.raised
           THEN /\ pulses' = new_pulses
                /\ analyzed' = "raised"
                /\ UNCHANGED <<metadata, decoded_data, protocol>>
           ELSE /\ pulses' = new_pulses
                /\ metadata' = BitRateMetadata(bit_rate.rate)
                /\ analyzed' = "returned"
                /\ IF decoded.found
                   THEN /\ decoded_data' = decoded.data
                        /\ protocol' = SomeStr(decoded.name)
                   ELSE UNCHANGED <<decoded_data, protocol>>
        /\ UNCHANGED <<frequency, modulation, raw_samples, added>>
        /\ UNCHANGED <<sessionVars, codecVars, queueVars, analyzerVars, deviceVars>>

SignalNext ==
    \/ \E samples \in SampleChunks : AddSamples(samples)
    \/ Analyze

SpecSignal == SignalInit /\ [][SignalNext]_vars

(* DeviceManager (device_manager.py) over its transports                   *)
(* (flipper_transport.py, mock_transport.py).  connect() and disconnect()  *)
(* are coroutines: each runs without interruption from one await that      *)
(* suspends to the next, and any suspended one may be resumed next.        *)

MaxOps == 3         \* connect() and disconnect() calls started
MaxTransmits == 1   \* transmit_signal calls made

ConnectionType == {"usb", "ble", "mock"}

(* a transport object: availability(), whether it holds a link (_serial or *)
(* _client is set, _connected is True), and MockTransport._buffer          *)
Transport(available) == [available |-> available, _connected |-> FALSE, _buffer |-> <<>>]

(* DeviceManager.__init__(enable_mock); None is "none"; whether pyserial   *)
(* and bleak are installed is given                                        *)
DeviceManager(enable_mock, has_serial, has_bleak) ==
    [status |-> "disconnected",
     connection_type |-> "none",
     active_transport |-> "none",
     _transports |->
         [t \in (IF enable_mock THEN ConnectionType ELSE {"usb", "ble"}) |->
             Transport(IF t = "usb" THEN has_serial
                       ELSE IF t = "ble" THEN has_bleak ELSE TRUE)]]

(* _update_status with no status callback registered *)
update_status(m, status) == [m EXCEPT !.status = status]

(* the outcomes of opening a link that do not depend on the program: the   *)
(* link opens, no device is found, or opening raises                       *)
LinkOutcomes == {"ok", "not_found", "failed"}

(* transport.disconnect() run to its end: the link is dropped (and the     *)
(* mock's buffer cleared)                                                  *)
transport_disconnected(m, t) ==
    [m EXCEPT !._transports[t]._connected = FALSE, !._transports[t]._buffer = <<>>]

(* transport.disconnect() suspends: the mock sleeps, BLE awaits            *)
(* _client.disconnect() when it has a client, USB closes at once           *)
disconnect_suspends(m, t) ==
    t = "mock" \/ (t = "ble" /\ m._transports[t]._connected)

(* disconnect(): the finally block *)
disconnect_finally(m) ==
    update_status([m EXCEPT !.active_transport = "none", !.connection_type = "none"],
                  "disconnected")

(* a coroutine step: the manager it leaves and the transport whose         *)
(* operation it now awaits ("none" when it has returned)                  *)
Step(m, awaits) == [manager |-> m, awaits |-> awaits]

(* disconnect() up to its first suspension *)
disconnect_begin(m) ==
    IF m.active_transport = "none" THEN Step(update_status(m, "disconnected"), "none")
    ELSE IF disconnect_suspends(m, m.active_transport) THEN Step(m, m.active_transport)
    ELSE Step(disconnect_finally(transport_disconnected(m, m.active_transport)), "none")

(* disconnect() resumed when transport t has disconnected *)
disconnect_end(m, t) == disconnect_finally(transport_disconnected(m, t))

(* connect(connection_type) from the transport lookup to its first         *)
(* suspension; USB opens its serial port before it sleeps                  *)
connect_begin(m, connection_type, outcome) ==
    IF connection_type \notin DOMAIN m._transports THEN Step(m, "none")
    ELSE IF ~m._transports[connection_type].available
    THEN Step(update_status(m, "error"), "none")
    ELSE LET c == update_status(m, "connecting")
         IN  IF connection_type # "usb" THEN Step(c, connection_type)
             ELSE IF outcome = "ok"
             THEN Step([c EXCEPT !._transports["usb"]._connected = TRUE], "usb")
             ELSE IF outcome = "not_found" THEN Step(update_status(c, "error"), "none")
             ELSE Step(update_status([c EXCEPT !._transports["usb"]._connected = FALSE],
                                     "error"), "none")

(* connect(connection_type) resumed when transport.connect() ends *)
connect_end(m, connection_type, outcome) ==
    LET success == connection_type # "ble" \/ outcome = "ok"
        linked == IF connection_type = "ble" /\ outcome = "not_found"
                  THEN m._transports[connection_type]._connected
                  ELSE success
        t == [m EXCEPT !._transports[connection_type]._connected = linked]
    IN  IF success
        THEN update_status([t EXCEPT !.active_transport = connection_type,
                                     !.connection_type = connection_type], "connected")
        ELSE update_status(t, "error")

(* a suspended coroutine: the call, what it awaits ("disconnect" or        *)
(* "connect" of a transport), and the transport                            *)
Coroutine(op, connection_type, pc, transport) ==
    [op |-> op, connection_type |-> connection_type, pc |-> pc, transport |-> transport]

NoCoroutines == [started |-> 0, waiting |-> <<>>]

Started(waiting) == [started |-> coroutines.started + 1, waiting |-> waiting]

Remove(waiting, i) == SubSeq(waiting, 1, i - 1) \o SubSeq(waiting, i + 1, Len(waiting))

(* the signals given to transmit_signal: each attribute is missing, or     *)
(* holds None, bytes, a bytearray, a str, a list or a numpy float64 array  *)
Attr(kind, value) == [kind |-> kind, value |-> value]
Missing == Attr("missing", <<>>)
PyNone == Attr("None", <<>>)

Signals ==
    [decoded_data : {PyNone, Attr("bytes", <<>>), Attr("bytes", <<1, 2>>), Attr("str", <<120>>)},
     data : {Missing, PyNone, Attr("bytearray", <<3>>)},
     raw_samples : {Missing, PyNone, Attr("bytes", <<4>>), Attr("list", <<0, 10>>),
                    Attr("ndarray", <<>>), Attr("ndarray", <<0, 10>>)}]

(* the 8 bytes of a float64 sample (0.0, 0.5, 1.0, -1.0; samples are in    *)
(* tenths), little-endian                                                  *)
float64_bytes(x) ==
    CASE x = 0 -> <<0, 0, 0, 0, 0, 0, 0, 0>>
      [] x = 5 -> <<0, 0, 0, 0, 0, 0, 224, 63>>
      [] x = 10 -> <<0, 0, 0, 0, 0, 0, 240, 63>>
      [] x = -10 -> <<0, 0, 0, 0, 0, 0, 240, 191>>

(* ndarray.tobytes() *)
RECURSIVE tobytes(_)
tobytes(samples) ==
    IF samples = <<>> THEN <<>>
    ELSE float64_bytes(Head(samples)) \o tobytes(Tail(samples))

(* the candidate raw_samples adds: its tobytes() when it has that method,  *)
(* bytes(raw_samples) when it is bytes or a bytearray, else none           *)
raw_candidates(raw) ==
    IF raw.kind = "missing" \/ raw.kind = "None" THEN <<>>
    ELSE IF raw.kind = "ndarray" THEN <<Attr("bytes", tobytes(raw.value))>>
    ELSE IF raw.kind \in {"bytes", "bytearray"} THEN <<Attr("bytes", raw.value)>>
    ELSE <<>>

attr_candidates(attr) == IF attr.kind = "missing" THEN <<>> ELSE <<attr>>

candidates_raw_first(signal) ==
    raw_candidates(signal.raw_samples) \o attr_candidates(signal.decoded_data)
        \o attr_candidates(signal.data)

(* candidates: decoded_data, data, then raw_samples *)
candidates(signal) ==
    attr_candidates(signal.decoded_data) \o attr_candidates(signal.data)
        \o raw_candidates(signal.raw_samples)

(* isinstance(candidate, (bytes, bytearray)) and candidate *)
is_payload(candidate) == candidate.kind \in {"bytes", "bytearray"} /\ candidate.value # <<>>

(* the loop over candidates: payload = bytes(candidate) of the first one   *)
(* accepted, None when there is none                                       *)
payload_of(signal) ==
    LET cs == candidates(signal)
        accepted == {i \in 1..Len(cs) : is_payload(cs[i])}
    IN  IF accepted = {} THEN NoneData
        ELSE SomeData(cs[CHOOSE i \in accepted : \A j \in accepted : i <= j].value)

(* a transmit_signal call that returned a result or raised an error *)
TransmitReturned(made, signal, result) ==
    [fn |-> "transmit_signal", made |-> made, signal |-> signal, outcome |-> "returned",
     result |-> result, error |-> ""]
TransmitRaised(made, signal, error) ==
    [fn |-> "transmit_signal", made |-> made, signal |-> signal, outcome |-> "raised",
     result |-> FALSE, error |-> error]
NoTransmit == [fn |-> "none", made |-> 0]

DeviceInit ==
    /\ SessionInit
    /\ CodecIdle
    /\ QueueIdle
    /\ AnalyzerIdle
    /\ SignalIdle
    /\ \E enable_mock \in BOOLEAN, has_serial \in BOOLEAN, has_bleak \in BOOLEAN :
           manager = DeviceManager(enable_mock, has_serial, has_bleak)
    /\ coroutines = NoCoroutines
    /\ transmit = NoTransmit

OthersUnchanged == UNCHANGED <<sessionVars, codecVars, queueVars, subghzVars>>

(* a connect(connection_type) call, to its first suspension or its return *)
Connect(connection_type, outcome) ==
    /\ coroutines.started < MaxOps
    /\ LET d == IF manager.status = "connected" THEN disconnect_begin(manager)
                ELSE Step(manager, "none")
           c == connect_begin(d.manager, connection_type, outcome)
       IN  IF d.awaits # "none"
           THEN /\ manager' = d.manager
                /\ coroutines' = Started(Append(coroutines.waiting,
                       Coroutine("connect", connection_type, "disconnect", d.awaits)))
           ELSE /\ manager' = c.manager
                /\ coroutines' = Started(
                       IF c.awaits = "none" THEN coroutines.waiting
                       ELSE Append(coroutines.waiting,
                                Coroutine("connect", connection_type, "connect", c.awaits)))
    /\ UNCHANGED transmit
    /\ OthersUnchanged

(* a disconnect() call, to its suspension or its return *)
Disconnect ==
    /\ coroutines.started < MaxOps
    /\ LET d == disconnect_begin(manager)
       IN  /\ manager' = d.manager
           /\ coroutines' = Started(
                  IF d.awaits = "none" THEN coroutines.waiting
                  ELSE Append(coroutines.waiting,
                           Coroutine("disconnect", "none", "disconnect", d.awaits)))
    /\ UNCHANGED transmit
    /\ OthersUnchanged

(* transport.disconnect() ends and the disconnect() awaiting it resumes;   *)
(* a connect() that called it goes on to its own first suspension          *)
ResumeDisconnect(i, outcome) ==
    /\ i \in 1..Len(coroutines.waiting)
    /\ coroutines.waiting[i].pc = "disconnect"
    /\ LET co == coroutines.waiting[i]
           m == disconnect_end(manager, co.transport)
           c == connect_begin(m, co.connection_type, outcome)
       IN  IF co.op = "disconnect"
           THEN /\ manager' = m
                /\ coroutines' = [coroutines EXCEPT !.waiting = Remove(@, i)]
           ELSE /\ manager' = c.manager
                /\ coroutines' =
                       [coroutines EXCEPT !.waiting =
                           IF c.awaits = "none" THEN Remove(@, i)
                           ELSE [@ EXCEPT ![i] = Coroutine("connect", co.connection_type,
                                                           "connect", c.awaits)]]
    /\ UNCHANGED transmit
    /\ OthersUnchanged

(* transport.connect() ends and the connect() awaiting it resumes *)
ResumeConnect(i, outcome) ==
    /\ i \in 1..Len(coroutines.waiting)
    /\ coroutines.waiting[i].pc = "connect"
    /\ manager' = connect_end(manager, coroutines.waiting[i].connection_type, outcome)
    /\ coroutines' = [coroutines EXCEPT !.waiting = Remove(@, i)]
    /\ UNCHANGED transmit
    /\ OthersUnchanged

(* transmit_signal(signal) on a manager that is not connected or whose     *)
(* active transport is the mock: it never suspends                         *)
TransmitSignal(signal) ==
    /\ transmit.made < MaxTransmits
    /\ manager.active_transport \in {"none", "mock"}
    /\ LET payload == payload_of(signal)
           made == transmit.made + 1
       IN  IF manager.status # "connected"
           THEN /\ transmit' = TransmitRaised(made, signal, "ConnectionError")
                /\ UNCHANGED manager
           ELSE IF ~payload.some
           THEN /\ transmit' = TransmitReturned(made, signal, FALSE)
                /\ UNCHANGED manager
           ELSE IF manager.active_transport = "none"
                   \/ ~manager._transports["mock"]._connected
           THEN /\ transmit' = TransmitRaised(made, signal, "ConnectionError")
                /\ UNCHANGED manager
           ELSE LET written == Len(payload.bytes)   \* MockTransport.write: len(data)
                IN  /\ manager' = [manager EXCEPT !._transports["mock"]._buffer =
                                                      @ \o payload.bytes]
                    /\ transmit' = TransmitReturned(made, signal,
                                                    written = Len(payload.bytes))
    /\ UNCHANGED coroutines
    /\ OthersUnchanged

(* connect() and disconnect() calls in any interleaving *)
DeviceNext ==
    \/ \E t \in ConnectionType, o \in LinkOutcomes : Connect(t, o)
    \/ Disconnect
    \/ \E i \in 1..MaxOps, o \in LinkOutcomes : ResumeDisconnect(i, o)
    \/ \E i \in 1..MaxOps, o \in LinkOutcomes : ResumeConnect(i, o)

SpecDevice == DeviceInit /\ [][DeviceNext]_vars

(* transmit_signal on a manager used with its mock transport only *)
TransmitNext ==
    \/ Connect("mock", "ok")
    \/ Disconnect
    \/ \E i \in 1..MaxOps : ResumeDisconnect(i, "ok")
    \/ \E i \in 1..MaxOps : ResumeConnect(i, "ok")
    \/ \E signal \in Signals : TransmitSignal(signal)

SpecTransmit == DeviceInit /\ [][TransmitNext]_vars

----------------------------------------------------------------------------
(* Claims about the codec, checked under SpecCodec *)

FullFrame == encode_message(c_msg).bytes

DecodedFull == c_pc = "decoded" /\ c_buf = FullFrame

(* the lengths the header of c_buf declares, summed *)
DeclaredTotal ==
    slice_len(unpack_u32(c_buf, 6)) + slice_len(unpack_u32(c_buf, 10))
        + slice_len(unpack_u32(c_buf, 14))

(* C7 as stated: decode(encode(m)) == m for every well-formed message,     *)
(* the empty byte string as data included.                                 *)
C7_RoundTripAll == DecodedFull => (c_out.ok /\ msg_eq(c_out.msg, c_msg))

(* C7 as amended: decode(encode(m)) == m for every well-formed message     *)
(* whose data is None or a non-empty byte string; for data b'' the decoded *)
(* message has data None and equals m in every other field.               *)
C7_RoundTrip ==
    DecodedFull =>
        /\ c_out.ok
        /\ msg_eq(c_out.msg,
                  IF c_msg.data = SomeData(<<>>)
                  THEN [c_msg EXCEPT !.data = NoneData] ELSE c_msg)

C7_Witness ==
    /\ DecodedFull
    /\ c_out.ok
    /\ c_msg.command_id = <<258, 772>>
    /\ c_msg.command = STR_pe
    /\ Len(c_msg.args) = 2
    /\ c_msg.data = SomeData(<<255, 1>>)
    /\ msg_eq(c_out.msg, c_msg)

(* C8: whenever the section lengths declared in the header exceed the      *)
(* bytes that follow the 17-byte header, decode fails and returns no       *)
(* message.                                                                *)
C8_DeclaredLengthsChecked ==
    (c_pc = "decoded" /\ Len(c_buf) >= header_size
        /\ DeclaredTotal > Len(c_buf) - header_size)
    => (~c_out.ok /\ c_out.error = "FlipperProtocolError")

(* C9: decoding a buffer shorter than the 17-byte header fails with the    *)
(* protocol error for a short message and returns no message.              *)
C9_ShortBufferFails ==
    (c_pc = "decoded" /\ Len(c_buf) < header_size)
    => c_out = DecodeError("Message too short")

C9_Witness ==
    /\ c_pc = "decoded"
    /\ Len(c_buf) = header_size - 1
    /\ c_buf # SubSeq(<<0, 0, 0, 0, 0, 0, 0, 0, 0, 0, 0, 0, 0, 0, 0, 0>>, 1, header_size - 1)
    /\ c_out = DecodeError("Message too short")

----------------------------------------------------------------------------
(* Claims about the session, checked under Spec *)

Outstanding == {i \in 1..Len(calls) : calls[i].pc # "exited"}

(* C1: a Response or Error whose command_id has no entry in the pending    *)
(* table is appended to the event queue by the handler that receives it.   *)
C1_UnmatchedResponseEnqueued ==
    [][\A m \in Arrivals :
        (HandleResponse(m) /\ m.type \in {RESPONSE, ERROR}
            /\ m.command_id \notin DOMAIN responses)
        => events' = Append(events, m)]_vars

(* C2: in every reachable state the keys of the pending table are exactly  *)
(* the ids of the send_command calls that have not exited.                 *)
C2_PendingExactlyOutstanding ==
    DOMAIN responses = {calls[i].id : i \in Outstanding}

(* C3: no two simultaneously outstanding calls share a command_id.         *)
C3_OutstandingIdsDistinct ==
    \A i \in Outstanding : \A j \in Outstanding :
        i # j => calls[i].id # calls[j].id

(* C4: whenever the future of a call is completed, it is completed with a  *)
(* message carrying the call's own id, and that step neither changes the   *)
(* pending table nor touches any other call; this holds whatever the order *)
(* in which the responses of the outstanding calls arrive.                 *)
C4_ResolvedByOwnIdOnly ==
    [][\A i \in 1..Len(calls) :
        (calls[i].fut.state = "pending" /\ calls'[i].fut.state = "done")
        => /\ calls'[i].fut.result.command_id = calls[i].id
           /\ calls'[i].fut.result \in Arrivals
           /\ responses' = responses
           /\ \A j \in 1..Len(calls) : j # i => calls'[j] = calls[j]]_vars

C4_Witness ==
    /\ Len(calls) = 2
    /\ calls[1].id # calls[2].id
    /\ calls[1].pc = "suspended"
    /\ calls[1].fut.state = "pending"
    /\ calls[2].outcome.kind = "returned"
    /\ calls[2].outcome.msg.type = RESPONSE
    /\ calls[2].outcome.msg.command_id = calls[2].id

(* C5: a call that exits with the timeout error was never resolved, its id *)
(* is out of the pending table in the very state in which it has exited,   *)
(* and no entry of the table leads to its future afterwards.               *)
C5_TimeoutRemovesEntry ==
    [][\A i \in 1..Len(calls') :
        calls'[i].outcome.kind = "TimeoutError"
        => /\ calls'[i].pc = "exited"
           /\ calls'[i].fut.state = "cancelled"
           /\ (i <= Len(calls) /\ calls[i].pc # "exited")
                => calls'[i].id \notin DOMAIN responses'
           /\ \A k \in DOMAIN responses' : responses'[k] # i]_vars

C5_Witness ==
    \E i \in 1..Len(calls) :
        /\ calls[i].outcome.kind = "TimeoutError"
        /\ calls[i].id \notin DOMAIN responses
        /\ ignored = "unregistered"

(* the counter incremented modulo 2^32 *)
u32_inc_mod32(c) ==
    IF c = <<Half - 1, Half - 1>> THEN <<0, 0>>
    ELSE IF c[2] = Half - 1 THEN <<c[1] + 1, 0>>
    ELSE <<c[1], c[2] + 1>>

(* C6: every allocation advances the command-id counter by one modulo      *)
(* 2^32, so that 0xFFFFFFFF follows 0xFFFFFFFE and 0 follows 0xFFFFFFFF.   *)
C6_CounterModulo2To32 ==
    [][Len(calls') = Len(calls) + 1 => command_id' = u32_inc_mod32(command_id)]_vars

(* C10: a call resumed on a future resolved with an Error message raises   *)
(* the protocol error carrying that message's 'error' argument ('Unknown   *)
(* error' when it has none); resumed on a Response it returns exactly that *)
(* message; either way its id is out of the pending table when it exits.   *)
C10_OutcomeFollowsResolution ==
    [][\A i \in 1..Len(calls) :
        (calls[i].pc = "suspended" /\ calls'[i].pc = "exited")
        => LET r == calls[i].fut.result
               carried == IF r.args = <<>> THEN JStr(STR_Unknown_error) ELSE r.args[1][2]
           IN  /\ r.type = ERROR
                    => calls'[i].outcome = Raised("FlipperProtocolError", carried)
               /\ r.type = RESPONSE => calls'[i].outcome = Returned(r)
               /\ calls[i].id \notin DOMAIN responses']_vars

C10_Witness ==
    /\ Len(calls) = 2
    /\ calls[1].fut.state = "done"
    /\ calls[1].fut.result.type = ERROR
    /\ calls[1].outcome = Raised("FlipperProtocolError", JStr(STR_x))
    /\ calls[2].fut.state = "done"
    /\ calls[2].fut.result.type = RESPONSE
    /\ calls[2].outcome = Returned(calls[2].fut.result)
    /\ DOMAIN responses = {}

----------------------------------------------------------------------------
(* C11: the event queue is FIFO and lossless: at every moment the messages *)
(* get_next_event has returned, followed by those still queued, are        *)
(* exactly the messages handle_event enqueued, in arrival order (so the    *)
(* returned sequence is a prefix of the enqueued one, each message once);  *)
(* a call returns only by taking the head of a non-empty queue, and a call *)
(* that finds the queue empty stays suspended.                             *)
C11_QueueFifoLossless ==
    /\ [](received \o events = enqueued)
    /\ [][/\ received' # received
             => /\ events # <<>>
                /\ received' = Append(received, Head(events))
                /\ events' = Tail(events)
          /\ (events = <<>> /\ enqueued' = enqueued)
             => /\ received' = received
                /\ getters' + woken' >= getters + woken]_vars

(* two different events were returned in arrival order, a third call waits *)
C11_Witness ==
    /\ Len(received) = 2
    /\ received[1] # received[2]
    /\ events = <<>>
    /\ getters = 1

----------------------------------------------------------------------------
----------------------------------------------------------------------------
(* C13: decode_manchester([10,10,10,12]) with the default tolerance 0.2    *)
(* returns None.                                                           *)
C13_EdgePairFails ==
    (/\ a_out.fn = "decode_manchester"
     /\ a_in.pulses = <<10, 10, 10, 12>>
     /\ a_in.tolerance = DefaultTolerance)
    => a_out.data = NoneData

----------------------------------------------------------------------------
(* C14: decode_manchester is all-or-nothing: the result is None for fewer  *)
(* than two pulses, and None whenever some pair (pulses 2k-1 and 2k) holds *)
(* a pulse farther than tolerance * clock from clock = min(pulses), no     *)
(* matter how many pairs before it were valid.                             *)
C14_AllOrNothing ==
    a_out.fn = "decode_manchester" =>
    LET ps == a_in.pulses
        tol == a_in.tolerance
        clock == CHOOSE c \in {ps[i] : i \in DOMAIN ps} : \A i \in DOMAIN ps : c <= ps[i]
        outside(p) == tol[2] * Abs(p - clock) > tol[1] * clock
    IN  /\ Len(ps) < 2 => a_out.data = NoneData
        /\ (/\ Len(ps) >= 2
            /\ \E k \in 1..(Len(ps) \div 2) : outside(ps[2 * k - 1]) \/ outside(ps[2 * k]))
           => a_out.data = NoneData

(* a valid pair followed by a pair with a pulse out of the band: None *)
C14_Witness ==
    /\ a_out.fn = "decode_manchester"
    /\ a_in.pulses = <<10, 12, 10, 13>>
    /\ a_in.tolerance = DefaultTolerance
    /\ a_out.data = NoneData

----------------------------------------------------------------------------
(* C15: a successful decode_manchester yields one bit per pair, 1 if the   *)
(* first pulse of the pair is longer than the second and 0 otherwise,      *)
(* floor(len(pulses) / 2) bits in all, and returns the first               *)
(* floor(bits / 8) groups of 8 bits as bytes, most significant bit first,  *)
(* in order; the bits left over are dropped.                               *)
C15_BitsPackedMsbFirst ==
    (a_out.fn = "decode_manchester" /\ a_out.data.some) =>
    LET ps == a_in.pulses
        out == a_out.data.bytes
        nbits == Len(ps) \div 2
        bit(n) == IF ps[2 * n - 1] > ps[2 * n] THEN 1 ELSE 0
    IN  /\ Len(out) = nbits \div 8
        /\ \A k \in 1..Len(out) :
             LET b == 8 * (k - 1)
             IN  out[k] = 128 * bit(b + 1) + 64 * bit(b + 2) + 32 * bit(b + 3)
                          + 16 * bit(b + 4) + 8 * bit(b + 5) + 4 * bit(b + 6)
                          + 2 * bit(b + 7) + bit(b + 8)

(* 35 pulses: 17 bits, two bytes 0x01 0x80, the 17th bit and the unpaired  *)
(* pulse dropped                                                           *)
C15_Witness ==
    /\ a_out.fn = "decode_manchester"
    /\ Len(a_in.pulses) = 35
    /\ a_out.data = SomeData(<<1, 128>>)

----------------------------------------------------------------------------
(* C16: analyze() records decoded_data and protocol from the first entry   *)
(* of get_protocols_for_frequency(self.frequency), in catalog order, whose *)
(* modulation is the signal's, whose decode_type is Manchester and on      *)
(* which decode_manchester succeeds (does not return None), and stops;     *)
(* entries of another decode_type are never tried, so without such an      *)
(* entry decoded_data and protocol are left as they were.                  *)
C16_FirstManchesterCandidateRecorded ==
    [][Analyze =>
        LET data == decode_manchester(pulses', DefaultTolerance)
            succeeding ==
                SelectSeq(get_protocols_for_frequency(frequency, DefaultFrequencyTolerance),
                          LAMBDA e : /\ e.modulation = modulation
                                     /\ e.decode_type = "manchester"
                                     /\ pulses' # <<>>
                                     /\ data # NoneData)
        IN  IF succeeding # <<>>
            THEN /\ decoded_data' = data
                 /\ protocol' = SomeStr(succeeding[1].name)
            ELSE UNCHANGED <<decoded_data, protocol>>]_vars

----------------------------------------------------------------------------
(* C17: analyze() never raises, and the first analyze() of a signal leaves *)
(* decoded_data and protocol None when no pulses are extracted, when no    *)
(* catalog entry matches the frequency and modulation with decode_type     *)
(* Manchester, or when decode_manchester returns None.                     *)
C17_AnalyzeNeverRaises ==
    [][Analyze =>
        /\ analyzed' = "returned"
        /\ (/\ analyzed = "never"
            /\ \/ pulses' = <<>>
               \/ \A i \in 1..Len(PROTOCOLS) :
                     ~(/\ \E j \in 1..Len(PROTOCOLS[i].frequencies) :
                             Abs(PROTOCOLS[i].frequencies[j] - frequency)
                                 <= DefaultFrequencyTolerance
                       /\ PROTOCOLS[i].modulation = modulation
                       /\ PROTOCOLS[i].decode_type = "manchester")
               \/ decode_manchester(pulses', DefaultTolerance) = NoneData)
           => /\ decoded_data' = NoneData
              /\ protocol' = NoneStr]_vars

(* a Princeton-like signal (433.92 MHz, ASK) whose pulses do not decode:   *)
(* analyzed without an exception, bit rate recorded, nothing decoded       *)
C17_Witness ==
    /\ analyzed = "returned"
    /\ frequency = 43392
    /\ modulation = "ASK"
    /\ raw_samples = <<0, 10, 10, 0, 0, 0, 0, 0, 10>>
    /\ pulses = <<2, 5>>
    /\ metadata.has_bit_rate
    /\ decoded_data = NoneData
    /\ protocol = NoneStr

----------------------------------------------------------------------------
(* the rule of C18: with T the set of indices where |sample| > threshold   *)
(* changes between consecutive samples, extract_pulses returns no pulse    *)
(* when T has fewer than two elements and otherwise one pulse for each two *)
(* neighbouring elements of T, their difference, in ascending order        *)
TransitionGapsReturned ==
    a_out.fn = "extract_pulses" =>
    LET samples == a_in.samples
        high(i) == Abs(samples[i]) > a_in.threshold
        T == {i \in 1..(Len(samples) - 1) : high(i) # high(i + 1)}
        k == Cardinality(T)
        out == a_out.pulses
    IN  /\ Len(out) = IF k >= 2 THEN k - 1 ELSE 0
        /\ \A j \in 1..Len(out) :
             \E a \in T, b \in T :
                /\ a < b
                /\ Cardinality({x \in T : x < b}) = j
                /\ ~\E x \in T : a < x /\ x < b
                /\ out[j] = b - a

ExampleSamples ==
    /\ a_out.fn = "extract_pulses"
    /\ a_in.samples = <<0, 0, 10, 10, 0, 0>>
    /\ a_in.threshold = DefaultThreshold

(* C18 as stated: the transition-gap rule, and [0,0,1,1,0,0] with          *)
(* threshold 0.5 gives [2,2].                                              *)
C18_ExampleGivesTwoPulses ==
    /\ TransitionGapsReturned
    /\ ExampleSamples => a_out.pulses = <<2, 2>>

(* C18, amended: the transition-gap rule, and [0,0,1,1,0,0] with threshold *)
(* 0.5, which has two transitions, gives the single pulse [2].             *)
C18_ExampleGivesOnePulse ==
    /\ TransitionGapsReturned
    /\ ExampleSamples => a_out.pulses = <<2>>

C18_Witness ==
    /\ ExampleSamples
    /\ a_out.pulses = <<2>>

----------------------------------------------------------------------------
(* C19: detect_bit_rate returns 0.0 for an empty pulse list and otherwise  *)
(* 1000000 / b, b being the pulse length that occurs most often and, among *)
(* those that do, the one whose first occurrence is earliest; [5,5,5,7]    *)
(* gives 200000.                                                           *)
C19_MostFrequentFirstSeen ==
    a_out.fn = "detect_bit_rate" =>
    LET ps == a_in.pulses
        count(v) == Cardinality({i \in DOMAIN ps : ps[i] = v})
        first(v) == CHOOSE i \in DOMAIN ps : ps[i] = v /\ \A j \in 1..(i - 1) : ps[j] # v
        values == {ps[i] : i \in DOMAIN ps}
        result == a_out.result
    IN  /\ ~result.raised
        /\ ps = <<>> => result.rate.num = 0
        /\ ps # <<>> =>
             \E b \in values :
                /\ \A v \in values : count(v) <= count(b)
                /\ \A v \in values : count(v) = count(b) => first(b) <= first(v)
                /\ result.rate = Quotient(1000000, b)
        /\ ps = <<5, 5, 5, 7>> => result.rate.num = 200000 * result.rate.den

(* 7 and 5 both occur twice, 7 first: the rate is 1000000 / 7 *)
C19_Witness ==
    /\ a_out.fn = "detect_bit_rate"
    /\ a_in.pulses = <<7, 5, 5, 7>>
    /\ a_out.result = Rate(Quotient(1000000, 7))

----------------------------------------------------------------------------
(* C20: get_protocols_for_frequency(freq, tolerance) returns exactly the   *)
(* catalog entries listing a frequency f with |f - freq| <= tolerance,     *)
(* each once, in catalog order.                                            *)
C20_CandidatesWithinTolerance ==
    a_out.fn = "get_protocols_for_frequency" =>
    a_out.matching =
        SelectSeq(PROTOCOLS,
                  LAMBDA e : \E i \in DOMAIN e.frequencies :
                                 /\ e.frequencies[i] - a_in.freq <= a_in.tolerance
                                 /\ a_in.freq - e.frequencies[i] <= a_in.tolerance)

(* 434.17 MHz with tolerance 0.25: Princeton and Nice FLO match on the     *)
(* bound, KeeLoq by two of its frequencies, and is returned once           *)
C20_Witness ==
    /\ a_out.fn = "get_protocols_for_frequency"
    /\ a_in.freq = 43417
    /\ a_in.tolerance = 25
    /\ Len(a_out.matching) = 3
    /\ a_out.matching[2].modulation = "FSK"

----------------------------------------------------------------------------
(* C21: the catalog is keyed by the lowercase protocol name: get_protocol  *)
(* of an entry's name, in any letter case, returns that entry, and         *)
(* get_protocol of a name that is no entry's name returns None.            *)
C21_KeyedByLowercaseName ==
    a_out.fn = "get_protocol" =>
        /\ \A k \in 1..Len(PROTOCOLS) :
               lower(a_in.name) = lower(PROTOCOLS[k].name)
                   => a_out.result = SomeProtocol(PROTOCOLS[k])
        /\ (\A k \in 1..Len(PROTOCOLS) : lower(a_in.name) # lower(PROTOCOLS[k].name))
               => a_out.result = NoProtocol

----------------------------------------------------------------------------
(* a step that is a transmit_signal call *)
TransmitCalled == transmit'.made = transmit.made + 1

ConnectedThroughMock == manager.status = "connected" /\ manager.active_transport = "mock"

(* a non-empty bytes (or bytearray) value *)
NonEmptyBytes(value) == value.kind \in {"bytes", "bytearray"} /\ value.value # <<>>

(* what a transmit_signal call does when the values it chooses from are    *)
(* v[1], v[2], v[3] in that priority: connected through the mock, it       *)
(* appends the first non-empty bytes value to the mock's buffer and        *)
(* returns True (the mock reports every byte written), or returns False    *)
(* and writes nothing when there is none; not connected, it raises         *)
(* ConnectionError and changes nothing                                     *)
TransmitsFirstOf(v) ==
    LET usable == {i \in 1..3 : NonEmptyBytes(v[i])}
        first == CHOOSE i \in usable : \A j \in usable : i <= j
    IN  /\ ConnectedThroughMock /\ usable # {} =>
               /\ transmit'.outcome = "returned" /\ transmit'.result
               /\ manager' = [manager EXCEPT !._transports["mock"]._buffer =
                                                 @ \o v[first].value]
        /\ ConnectedThroughMock /\ usable = {} =>
               /\ transmit'.outcome = "returned" /\ ~transmit'.result
               /\ manager' = manager
        /\ manager.status # "connected" =>
               /\ transmit'.outcome = "raised" /\ transmit'.error = "ConnectionError"
               /\ manager' = manager

(* C22 as stated: transmit_signal chooses among the values of decoded_data, *)
(* data and raw_samples as they are: the first that is non-empty bytes is  *)
(* written to the mock transport and True returned; False is returned and  *)
(* nothing written when none is; ConnectionError is raised when the        *)
(* manager is not connected.                                               *)
C22_FirstBytesAttribute ==
    [][TransmitCalled =>
          TransmitsFirstOf(<<transmit'.signal.decoded_data, transmit'.signal.data,
                             transmit'.signal.raw_samples>>)]_vars

(* C22 as amended: the third value is the bytes form of raw_samples, its   *)
(* tobytes() when it is an array.                                          *)
C22_FirstBytesCandidate ==
    [][TransmitCalled =>
          LET raw == transmit'.signal.raw_samples
          IN  TransmitsFirstOf(<<transmit'.signal.decoded_data, transmit'.signal.data,
                                 IF raw.kind = "ndarray"
                                 THEN Attr("bytes", tobytes(raw.value)) ELSE raw>>)]_vars

(* a signal whose only payload is its array of samples [0.0, 1.0] was      *)
(* transmitted: its 16 bytes are in the mock's buffer                      *)
C22_Witness ==
    /\ transmit.fn = "transmit_signal"
    /\ transmit.signal.decoded_data = Attr("bytes", <<>>)
    /\ transmit.signal.data = PyNone
    /\ transmit.signal.raw_samples = Attr("ndarray", <<0, 10>>)
    /\ transmit.outcome = "returned" /\ transmit.result
    /\ manager._transports["mock"]._buffer =
           <<0, 0, 0, 0, 0, 0, 0, 0, 0, 0, 0, 0, 0, 0, 240, 63>>

----------------------------------------------------------------------------
(* C30: in every state reachable by interleaved connect() and disconnect() *)
(* calls, status is CONNECTED if and only if active_transport is set, and  *)
(* once no call is in flight no transport holds a link without being the   *)
(* active_transport.                                                       *)
C30_ConnectedIffActiveTransport ==
    /\ manager.status = "connected" <=> manager.active_transport # "none"
    /\ coroutines.waiting = <<>> =>
           \A t \in DOMAIN manager._transports :
               manager._transports[t]._connected => t = manager.active_transport

----------------------------------------------------------------------------
(* C23: only a message of kind Response or Error resolves a pending call:  *)
(* no step completes a pending future with a message of another kind, and  *)
(* a step that appends a message to the event queue leaves the pending     *)
(* table and every call untouched.                                         *)
C23_OnlyResponseOrErrorResolves ==
    [][/\ \A i \in 1..Len(calls) :
              (calls[i].fut.state = "pending" /\ calls'[i].fut.state = "done")
                  => calls'[i].fut.result.type \in {RESPONSE, ERROR}
       /\ Len(events') > Len(events) => (responses' = responses /\ calls' = calls)]_vars

----------------------------------------------------------------------------
(* C24: a completion handle is resolved at most once: once a call's future *)
(* holds a result no later step changes it (a second response with the     *)
(* same command_id is ignored, and handle_response returns normally), and  *)
(* the message a call returns is that first result.                        *)
C24_ResolvedAtMostOnce ==
    [][\A i \in 1..Len(calls) :
          calls[i].fut.state = "done" =>
              /\ calls'[i].fut = calls[i].fut
              /\ calls'[i].outcome.kind = "returned"
                     => calls'[i].outcome.msg = calls[i].fut.result]_vars

(* a call has returned the Response it was resolved with although a later  *)
(* message with its id arrived while its entry was still in the table (no  *)
(* future was ever cancelled, so the message ignored found a done future)  *)
C24_Witness ==
    /\ ignored = "not_pending"
    /\ \A i \in 1..Len(calls) : calls[i].fut.state # "cancelled"
    /\ \E i \in 1..Len(calls) :
           /\ calls[i].pc = "exited"
           /\ calls[i].outcome.kind = "returned"
           /\ calls[i].outcome.msg.type = RESPONSE

----------------------------------------------------------------------------
(* C25 as stated: send_command registers its completion handle only after  *)
(* the write has been issued: when a call reaches transport.write its id   *)
(* is not yet in the pending table.                                        *)
C25_RegisteredAfterWrite ==
    \A i \in 1..Len(calls) : ~calls[i].registered_at_write

(* C25 as amended: the handle is registered before the frame is encoded    *)
(* and written; a call that suspends has its id in the pending table and   *)
(* its encoded Command frame on the wire, and a call whose write fails     *)
(* exits with its id removed from the pending table.                       *)
C25_RegisteredBeforeWrite ==
    [][Len(calls') > Len(calls) =>
          LET c == calls'[Len(calls')]
          IN  /\ c.registered_at_write
              /\ c.id = next_command_id(command_id)
              /\ c.pc = "suspended" =>
                     /\ c.id \in DOMAIN responses'
                     /\ wire' = encode_message(command_message(c.id)).bytes
              /\ c.pc = "exited" => c.id \notin DOMAIN responses']_vars

(* one call failed in transport.write and left no entry, another is        *)
(* suspended with its entry registered                                     *)
C25_Witness ==
    /\ \E i \in 1..Len(calls) :
           /\ calls[i].outcome.kind = "WriteError"
           /\ calls[i].id \notin DOMAIN responses
    /\ \E i \in 1..Len(calls) :
           /\ calls[i].pc = "suspended"
           /\ calls[i].id \in DOMAIN responses

----------------------------------------------------------------------------
(* C26: add_samples and analyze() never remove or alter samples already    *)
(* appended; analyze() on a signal with no raw samples changes no field;   *)
(* analyze() on samples that yield no pulses (fewer than two level         *)
(* changes) leaves decoded_data, protocol and metadata as they were (no    *)
(* bit rate is recorded).                                                  *)
C26_AnalyzeWithoutPulsesKeepsResults ==
    [][/\ Len(raw_samples') >= Len(raw_samples)
       /\ SubSeq(raw_samples', 1, Len(raw_samples)) = raw_samples
       /\ added' = added =>
              /\ raw_samples' = raw_samples
              /\ raw_samples = <<>> =>
                     UNCHANGED <<pulses, decoded_data, protocol, metadata>>
              /\ Cardinality({i \in 1..(Len(raw_samples) - 1) :
                                 (Abs(raw_samples[i]) > DefaultThreshold)
                                     # (Abs(raw_samples[i + 1]) > DefaultThreshold)}) < 2
                     => UNCHANGED <<decoded_data, protocol, metadata>>]_vars

(* analyze() has returned on a buffer with a single edge, which yields no  *)
(* pulses: nothing is recorded                                             *)
C26_Witness ==
    /\ analyzed = "returned"
    /\ raw_samples = <<0, 10>>
    /\ pulses = <<>>
    /\ decoded_data = NoneData
    /\ protocol = NoneStr
    /\ metadata = EmptyMetadata

----------------------------------------------------------------------------
(* C27: decode_manchester never returns an empty byte string: every result *)
(* that is not None has at least one byte.                                 *)
C27_NeverEmptyBytes ==
    a_out.fn = "decode_manchester" => a_out.data # SomeData(<<>>)

----------------------------------------------------------------------------
(* C28: after any sequence of add_samples and analyze() calls, decoded_data *)
(* is set if and only if protocol is set, and then protocol is the name of *)
(* a catalog entry with the signal's modulation, decode type Manchester    *)
(* and a frequency within 0.1 MHz of the signal's frequency.               *)
C28_ProtocolFitsSignal ==
    /\ decoded_data.some <=> protocol.some
    /\ protocol.some =>
           \E k \in 1..Len(PROTOCOLS) :
               /\ PROTOCOLS[k].name = protocol.str
               /\ PROTOCOLS[k].modulation = modulation
               /\ PROTOCOLS[k].decode_type = "manchester"
               /\ \E i \in 1..Len(PROTOCOLS[k].frequencies) :
                      /\ PROTOCOLS[k].frequencies[i] - frequency <= 10
                      /\ frequency - PROTOCOLS[k].frequencies[i] <= 10

(* an FSK signal at 434.02 MHz was decoded as KeeLoq (433.92 MHz is 0.1    *)
(* MHz away)                                                               *)
C28_Witness ==
    /\ frequency = 43402
    /\ modulation = "FSK"
    /\ protocol = SomeStr(<<75, 101, 101, 76, 111, 113>>)
    /\ decoded_data = SomeData(<<165>>)

----------------------------------------------------------------------------
(* C29: after every analyze() call the derived fields describe the current *)
(* raw samples: when decoded_data and protocol are set, decode_manchester  *)
(* of the current pulses succeeds and yields decoded_data, and the bit     *)
(* rate in metadata is detect_bit_rate of the current pulses; when the     *)
(* current samples yield no pulses or do not decode, no result of an       *)
(* earlier analysis is left in place.                                      *)
C29_ResultsDescribeCurrentSamples ==
    [][added' = added =>
          LET data == decode_manchester(pulses', DefaultTolerance)
          IN  /\ pulses' = extract_pulses(raw_samples', DefaultThreshold)
              /\ (decoded_data'.some \/ protocol'.some) =>
                     /\ truthy(data)
                     /\ decoded_data' = data
              /\ metadata' = IF pulses' = <<>> THEN EmptyMetadata
                             ELSE BitRateMetadata(detect_bit_rate(pulses').rate)]_vars

====
